---- MODULE Spec2Model ----
(***************************************************************************)
(* Options income screener: scoring engine, contract selector and          *)
(* contrarian sentiment signal.                                            *)
(*                                                                         *)
(* Units (all quantities are integers):                                    *)
(*   score, component      1/Unit            (Unit = 180000 is 1.0)        *)
(*   iv_rank, iv_percentile  1/100 of a point  (7321 is 73.21)             *)
(*   roi_30d               1/10000           (786 is 7.86%, so the         *)
(*                                            "roi_30d x 100" of the code  *)
(*                                            is in 1/100 of a percent)    *)
(*   margin_of_safety      1/10000           (949 is 9.49%)                *)
(*   trend_strength, trend_stability, trend_consistency   1/100            *)
(*   dividend_yield        1/1000            (50 is 5%)                    *)
(*   theta, gamma, vega    1/10000           (2764 is 0.2764)              *)
(*   spread_pct            1/100             (7 is 0.07)                   *)
(*   put_call_ratio, cmf_20  1/100                                         *)
(*   delta                 1/10000 (signed: calls > 0, puts < 0)           *)
(*   strike, stock_price, bid, ask, premium   cents                        *)
(* Every division of the scoring formulas is exact in these units.         *)
(***************************************************************************)
EXTENDS Integers, Sequences, FiniteSets, TLC

VARIABLES
    pc,           \* position of the run being modelled
    strategy,     \* "CC" or "CSP"
    inp,          \* inputs of the computation being applied
    res,          \* result of the computation
    contract,     \* the contract handed to the hard filters
    verdict,      \* the outcome of the hard filters on contract
    stock_price,  \* the symbol's stock price, in cents
    chain,        \* the symbol's option chain
    selected,     \* the contract the selector returned, or NoContract
    picks,        \* the picks stored so far
    sentiment,    \* put_call_ratio, cmf_20 and the contrarian signal
    stage,        \* stage of the daily run
    run_date,     \* date of the current run (a day number)
    universe,     \* symbols loaded for the run
    survivors,    \* symbols kept by step 1 of the sentiment filter
    forwarded,    \* symbols handed to the per-symbol screening
    scan_log,     \* rows of universe_scan_log
    feed,         \* what the data collaborators return for each symbol
    progress,     \* per-symbol state of the screening loop
    run_picks,    \* picks produced so far by the run
    ranking,      \* the ranked picks the run stored
    run_stats,    \* symbols attempted / succeeded / failed
    notified,     \* run dates for which the alert was sent
    script,       \* one execution of run_daily_screening.sh
    db,           \* DatabaseService.db: "open" or "null"
    tables,       \* content of the database tables the API reads
    request,      \* the HTTP request being served
    response      \* the HTTP response sent

scoreVars == <<strategy, inp, res>>
filterVars == <<contract, verdict>>
screenVars == <<stock_price, chain, selected, picks>>
coreVars == <<pc, scoreVars, filterVars, screenVars, sentiment>>
runVars == <<stage, run_date, universe, survivors, forwarded, scan_log, feed,
             progress, run_picks, ranking, run_stats, notified, script>>
apiVars == <<db, tables, request, response>>

vars == <<coreVars, runVars, apiVars>>

(* 1.0 in score units: the least common denominator of the weighted        *)
(* component formulas on the input units above.                            *)
Unit == (2^5) * (3^2) * (5^4)

(***************************************************************************)
(* Exact arithmetic for the multiplicative adjustments: non-negative       *)
(* integers as little-endian sequences of limbs, without leading zeros.    *)
(***************************************************************************)
Base == 10000

RECURSIVE BigOf(_)
BigOf(n) == IF n < Base THEN <<n>> ELSE <<n % Base>> \o BigOf(n \div Base)

RECURSIVE BigMulCarry(_, _, _)
BigMulCarry(b, m, c) ==
    IF b = <<>>
    THEN IF c = 0 THEN <<>> ELSE BigOf(c)
    ELSE LET p == Head(b) * m + c
         IN  <<p % Base>> \o BigMulCarry(Tail(b), m, p \div Base)

BigMul(b, m) == IF b = <<0>> THEN <<0>> ELSE BigMulCarry(b, m, 0)

BigLess(a, b) ==
    IF Len(a) # Len(b)
    THEN Len(a) < Len(b)
    ELSE \E i \in 1..Len(a) :
            /\ a[i] < b[i]
            /\ \A j \in (i+1)..Len(a) : a[j] = b[j]

BigLeq(a, b) == a = b \/ BigLess(a, b)

(***************************************************************************)
(* Scoring configuration                                                   *)
(***************************************************************************)
CC_SCORING_WEIGHTS_heavy ==
    [iv_rank |-> 25, roi_30d |-> 35, trend_strength |-> 15,
     dividend_yield |-> 5, theta |-> 10, gamma |-> 5, vega |-> 10]

CC_SCORING_WEIGHTS ==
    [iv_rank |-> 25, roi_30d |-> 30, trend_strength |-> 15,
     dividend_yield |-> 5, theta |-> 10, gamma |-> 5, vega |-> 10]

CSP_SCORING_WEIGHTS ==
    [iv_rank |-> 25, roi_30d |-> 30, margin_of_safety |-> 15,
     trend_stability |-> 5, theta |-> 10, gamma |-> 5, vega |-> 10]

theta_optimal_min == 500
theta_optimal_max == 1500
GAMMA_LOW_THRESHOLD == 10
GAMMA_HIGH_THRESHOLD == 30
VEGA_HIGH_THRESHOLD == 2000
VEGA_LOW_THRESHOLD == 800

Max(a, b) == IF a >= b THEN a ELSE b
Min(a, b) == IF a <= b THEN a ELSE b
Abs(a) == IF a < 0 THEN -a ELSE a

(* a component score (1/Unit) times a weight (1/100) *)
Weighted(score, w) == (score * w) \div 100

(* a +-2 sigma window instead of +-3 sigma *)
normalize_metric_2sigma(value, target, scale) ==
    LET n == value - target + 2 * scale
        d == 4 * scale
    IN  IF n <= 0 THEN 0
        ELSE IF n >= d THEN Unit
        ELSE (Unit * n) \div d

(* falling again past the target, symmetrically *)
normalize_metric_tent(value, target, scale) ==
    LET v == IF value > target THEN 2 * target - value ELSE value
        n == v - target + 3 * scale
        d == 6 * scale
    IN  IF n <= 0 THEN 0
        ELSE IF n >= d THEN Unit
        ELSE (Unit * n) \div d

(* z = (value - target) / scale; (z + 3) / 6; clamped to [0, 1] *)
normalize_metric(value, target, scale) ==
    LET n == value - target + 3 * scale
        d == 6 * scale
    IN  IF n <= 0 THEN 0
        ELSE IF n >= d THEN Unit
        ELSE (Unit * n) \div d

(* without the 0.3 floor *)
theta_score_nofloor(theta) ==
    LET theta_abs == Abs(theta)
    IN  IF theta_optimal_min <= theta_abs /\ theta_abs <= theta_optimal_max
        THEN Unit
        ELSE IF theta_abs < theta_optimal_min
        THEN (Unit * theta_abs) \div theta_optimal_min
        ELSE Max(0, Unit - (Unit * (theta_abs - theta_optimal_max)) \div 1500)

theta_score(theta) ==
    LET theta_abs == Abs(theta)
    IN  IF theta_optimal_min <= theta_abs /\ theta_abs <= theta_optimal_max
        THEN Unit
        ELSE IF theta_abs < theta_optimal_min
        THEN (Unit * theta_abs) \div theta_optimal_min
        ELSE Max((3 * Unit) \div 10,
                 Unit - (Unit * (theta_abs - theta_optimal_max)) \div 1500)

gamma_score(gamma) ==
    IF gamma <= GAMMA_LOW_THRESHOLD THEN Unit
    ELSE IF gamma <= GAMMA_HIGH_THRESHOLD THEN (7 * Unit) \div 10
    ELSE (3 * Unit) \div 10

vega_score(vega, iv_rank) ==
    IF iv_rank > 7000 /\ vega > VEGA_HIGH_THRESHOLD THEN Unit
    ELSE IF iv_rank > 7000 /\ vega > VEGA_LOW_THRESHOLD THEN (8 * Unit) \div 10
    ELSE IF iv_rank < 3000 /\ vega < VEGA_LOW_THRESHOLD THEN (9 * Unit) \div 10
    ELSE (6 * Unit) \div 10

trend_score(trend_strength) == (Unit * (trend_strength + 100)) \div 200

(* without the cap at a 5% yield *)
dividend_score_uncapped(dividend_yield) == (Unit * dividend_yield) \div 50

dividend_score(dividend_yield) == Min((Unit * dividend_yield) \div 50, Unit)

stability_score(trend_stability) == (Unit * trend_stability) \div 100

cc_components(i) ==
    [iv        |-> Weighted(normalize_metric(i.iv_rank, 5000, 1500),
                            CC_SCORING_WEIGHTS.iv_rank),
     roi       |-> Weighted(normalize_metric(i.roi_30d, 150, 50),
                            CC_SCORING_WEIGHTS.roi_30d),
     trend     |-> Weighted(trend_score(i.trend_strength),
                            CC_SCORING_WEIGHTS.trend_strength),
     dividend  |-> Weighted(dividend_score(i.dividend_yield),
                            CC_SCORING_WEIGHTS.dividend_yield),
     theta     |-> Weighted(theta_score(i.theta), CC_SCORING_WEIGHTS.theta),
     gamma     |-> Weighted(gamma_score(i.gamma), CC_SCORING_WEIGHTS.gamma),
     vega      |-> Weighted(vega_score(i.vega, i.iv_rank),
                            CC_SCORING_WEIGHTS.vega),
     margin    |-> 0,
     stability |-> 0]

csp_components(i) ==
    [iv        |-> Weighted(normalize_metric(i.iv_rank, 5500, 1500),
                            CSP_SCORING_WEIGHTS.iv_rank),
     roi       |-> Weighted(normalize_metric(i.roi_30d, 120, 40),
                            CSP_SCORING_WEIGHTS.roi_30d),
     trend     |-> 0,
     dividend  |-> 0,
     theta     |-> Weighted(theta_score(i.theta), CSP_SCORING_WEIGHTS.theta),
     gamma     |-> Weighted(gamma_score(i.gamma), CSP_SCORING_WEIGHTS.gamma),
     vega      |-> Weighted(vega_score(i.vega, i.iv_rank),
                            CSP_SCORING_WEIGHTS.vega),
     margin    |-> Weighted(normalize_metric(i.margin_of_safety, 750, 300),
                            CSP_SCORING_WEIGHTS.margin_of_safety),
     stability |-> Weighted(stability_score(i.trend_stability),
                            CSP_SCORING_WEIGHTS.trend_stability)]

base_score(c) ==
    c.iv + c.roi + c.trend + c.dividend + c.theta + c.gamma + c.vega
    + c.margin + c.stability

(***************************************************************************)
(* Additional score adjustments: each is a multiplier in 1/100, 100 when   *)
(* the adjustment does not apply.                                          *)
(***************************************************************************)
Signals == {"long", "short", "none"}

(* the CSP penalty for "short" applied to CC *)
cc_sentiment_multiplier_csp(signal) ==
    IF signal = "long" THEN 110
    ELSE IF signal = "short" THEN 90
    ELSE 100

cc_sentiment_multiplier(signal) ==
    IF signal = "long" THEN 110
    ELSE IF signal = "short" THEN 95
    ELSE 100

csp_sentiment_multiplier(signal) ==
    IF signal = "long" THEN 110
    ELSE IF signal = "short" THEN 90
    ELSE 100

below_200sma_multiplier(i) == IF i.below_200sma THEN 85 ELSE 100
wide_spread_multiplier(i) == IF i.spread_pct > 7 THEN 95 ELSE 100
earnings_multiplier(i) == IF i.near_earnings THEN 97 ELSE 100
close_to_spot_multiplier(i) == IF i.margin_of_safety < 500 THEN 92 ELSE 100
high_liquidity_multiplier(i) == IF i.oi > 2000 THEN 105 ELSE 100
trend_consistency_multiplier(i) == IF i.trend_consistency > 70 THEN 103 ELSE 100
in_uptrend_multiplier(i) == IF i.in_uptrend THEN 108 ELSE 100
iv_percentile_multiplier(i) == IF i.iv_percentile > 8000 THEN 103 ELSE 100

cc_adjustments(i) ==
    <<below_200sma_multiplier(i), wide_spread_multiplier(i),
      earnings_multiplier(i), high_liquidity_multiplier(i),
      trend_consistency_multiplier(i),
      cc_sentiment_multiplier(i.contrarian_signal)>>

csp_adjustments(i) ==
    <<wide_spread_multiplier(i), earnings_multiplier(i),
      close_to_spot_multiplier(i), high_liquidity_multiplier(i),
      in_uptrend_multiplier(i), iv_percentile_multiplier(i),
      csp_sentiment_multiplier(i.contrarian_signal)>>

(* final_score *= m / 100, for every m of ms in turn: the numerator *)
RECURSIVE ApplyAdjustments(_, _)
ApplyAdjustments(num, ms) ==
    IF ms = <<>> THEN num
    ELSE ApplyAdjustments(BigMul(num, Head(ms)), Tail(ms))

(* the denominator that goes with ApplyAdjustments: 1.0 after Len(ms) steps *)
RECURSIVE AdjustedOne(_)
AdjustedOne(ms) ==
    IF ms = <<>> THEN BigOf(Unit)
    ELSE BigMul(AdjustedOne(Tail(ms)), 100)

(* without the cap *)
FinalScore_uncapped(pre, one) == pre

(* the score is capped at 1.0 (pre and one over the same denominator);     *)
(* a Big is never negative, and neither is a base score of valid inputs    *)
FinalScore(pre, one) == IF BigLess(one, pre) THEN one ELSE pre

ScoreResult(c, ms) ==
    LET pre == ApplyAdjustments(BigOf(base_score(c)), ms)
        one == AdjustedOne(ms)
    IN  [c |-> c, base |-> base_score(c), pre |-> pre, one |-> one,
         score |-> FinalScore(pre, one)]

cc_score_of(i) == ScoreResult(cc_components(i), cc_adjustments(i))

csp_score_of(i) == ScoreResult(csp_components(i), csp_adjustments(i))

(***************************************************************************)
(* Hard filters and contract selection                                     *)
(***************************************************************************)
MIN_DTE == 30
MAX_DTE == 45
CC_DELTA_MIN == 2500
CC_DELTA_MAX == 3500
CSP_DELTA_MIN == 2500
CSP_DELTA_MAX == 3000
CC_STRIKE_MIN_PCT == 102
CC_STRIKE_MAX_PCT == 105
CSP_STRIKE_MIN_PCT == 95
CSP_STRIKE_MAX_PCT == 98
MIN_OI == 500
MIN_VOL == 50
MAX_SPREAD_PCT == 10

NoContract == [side |-> "none"]

strategy_side(strat) == IF strat = "CC" THEN "call" ELSE "put"

(* twice the mid price (bid + ask) / 2, in cents *)
mid2(c) == c.bid + c.ask

dte_ok(c) == MIN_DTE <= c.dte /\ c.dte <= MAX_DTE

strike_ok(c, strat, spot) ==
    IF strat = "CC"
    THEN /\ 100 * c.strike >= CC_STRIKE_MIN_PCT * spot
         /\ 100 * c.strike <= CC_STRIKE_MAX_PCT * spot
    ELSE /\ 100 * c.strike >= CSP_STRIKE_MIN_PCT * spot
         /\ 100 * c.strike <= CSP_STRIKE_MAX_PCT * spot

delta_ok(c, strat) ==
    IF strat = "CC"
    THEN CC_DELTA_MIN <= c.delta /\ c.delta <= CC_DELTA_MAX
    ELSE CSP_DELTA_MIN <= Abs(c.delta) /\ Abs(c.delta) <= CSP_DELTA_MAX

(* (ask - bid) / mid <= 0.10 *)
spread_ok(c) == 200 * (c.ask - c.bid) <= MAX_SPREAD_PCT * mid2(c)

(* mid > 0.01 *)
premium_ok(c) == mid2(c) > 2

(* open interest above, not at, the minimum *)
filter_reason_strict_oi(c, strat, spot) ==
    IF c.side # strategy_side(strat) THEN "side"
    ELSE IF ~dte_ok(c) THEN "dte"
    ELSE IF ~strike_ok(c, strat, spot) THEN "strike"
    ELSE IF ~delta_ok(c, strat) THEN "delta"
    ELSE IF c.oi <= MIN_OI THEN "open_interest"
    ELSE IF c.volume < MIN_VOL THEN "volume"
    ELSE IF ~spread_ok(c) THEN "spread"
    ELSE IF ~premium_ok(c) THEN "premium"
    ELSE "ok"

(* the first hard filter the contract fails, "ok" when it passes them all *)
filter_reason(c, strat, spot) ==
    IF c.side # strategy_side(strat) THEN "side"
    ELSE IF ~dte_ok(c) THEN "dte"
    ELSE IF ~strike_ok(c, strat, spot) THEN "strike"
    ELSE IF ~delta_ok(c, strat) THEN "delta"
    ELSE IF c.oi < MIN_OI THEN "open_interest"
    ELSE IF c.volume < MIN_VOL THEN "volume"
    ELSE IF ~spread_ok(c) THEN "spread"
    ELSE IF ~premium_ok(c) THEN "premium"
    ELSE "ok"

is_eligible(c, strat, spot) == filter_reason(c, strat, spot) = "ok"

basis(c, strat, spot) == IF strat = "CC" THEN spot ELSE c.strike

(* roi_30d(a) > roi_30d(b), with roi_30d = (premium / basis) * (30 / dte)  *)
(* and premium the mid price                                               *)
roi_greater(a, b, strat, spot) ==
    mid2(a) * basis(b, strat, spot) * b.dte
        > mid2(b) * basis(a, strat, spot) * a.dte

(* roi_30d in 1/10000, rounded down *)
roi_30d(c, strat, spot) ==
    (mid2(c) * 30 * 10000) \div (2 * basis(c, strat, spot) * c.dte)

(* (ask - bid) / mid in 1/100, rounded up: it is only compared with 7 *)
spread_pct(c) == (200 * (c.ask - c.bid) + mid2(c) - 1) \div mid2(c)

(* the distance taken relative to the strike *)
margin_of_safety_of_strike(c, spot) ==
    ((spot - c.strike) * 10000) \div c.strike

(* (stock_price - strike) / stock_price in 1/10000, rounded down *)
margin_of_safety(c, spot) == ((spot - c.strike) * 10000) \div spot

eligible_contracts(ch, strat, spot) ==
    {c \in ch : is_eligible(c, strat, spot)}

(* the eligible contracts with the largest premium, not the largest roi_30d *)
best_by_premium(ch, strat, spot) ==
    LET cands == eligible_contracts(ch, strat, spot)
    IN  {c \in cands : \A d \in cands : mid2(d) <= mid2(c)}

(* the eligible contracts no eligible contract beats on roi_30d *)
best_by_roi(ch, strat, spot) ==
    LET cands == eligible_contracts(ch, strat, spot)
    IN  {c \in cands : \A d \in cands : ~roi_greater(d, c, strat, spot)}

(* the scoring inputs of a selected contract: the symbol's inputs sym      *)
(* completed with the contract's own                                       *)
pick_inputs(sym, c, strat, spot) ==
    [sym EXCEPT !.roi_30d = roi_30d(c, strat, spot),
                !.theta = c.theta, !.gamma = c.gamma, !.vega = c.vega,
                !.oi = c.oi, !.spread_pct = spread_pct(c),
                !.margin_of_safety =
                    IF strat = "CSP" THEN margin_of_safety(c, spot) ELSE 0]

score_of(strat, i) == IF strat = "CC" THEN cc_score_of(i) ELSE csp_score_of(i)

(***************************************************************************)
(* Contrarian signal                                                       *)
(***************************************************************************)
(* a reading is <<v>>, a missing reading (insufficient data) is Null *)
Null == <<>>

PCR_LONG_THRESHOLD == 120
PCR_SHORT_THRESHOLD == 90
CMF_LONG_THRESHOLD == 5
CMF_SHORT_THRESHOLD == -5

(* thresholds exclusive *)
derive_contrarian_signal_strict(pcr, cmf) ==
    IF pcr = Null \/ cmf = Null THEN "none"
    ELSE IF pcr[1] > PCR_LONG_THRESHOLD /\ cmf[1] > CMF_LONG_THRESHOLD
    THEN "long"
    ELSE IF pcr[1] < PCR_SHORT_THRESHOLD /\ cmf[1] < CMF_SHORT_THRESHOLD
    THEN "short"
    ELSE "none"

derive_contrarian_signal(pcr, cmf) ==
    IF pcr = Null \/ cmf = Null THEN "none"
    ELSE IF pcr[1] >= PCR_LONG_THRESHOLD /\ cmf[1] >= CMF_LONG_THRESHOLD
    THEN "long"
    ELSE IF pcr[1] <= PCR_SHORT_THRESHOLD /\ cmf[1] <= CMF_SHORT_THRESHOLD
    THEN "short"
    ELSE "none"

(***************************************************************************)
(* Inputs                                                                  *)
(***************************************************************************)
GridSteps == 2

Grid(lo, hi) == {lo + (k * (hi - lo)) \div GridSteps : k \in 0..GridSteps}

IvRankValues == Grid(0, 10000)
RoiValues == Grid(0, 400)
ThetaValues == {-300, -1000, -3000}
GammaValues == {5, 20, 90}
VegaValues == {500, 2500}
TrendStrengthValues == {-100, 100}
DividendValues == {0, 60}
SpreadValues == {5, 8}
OiValues == {1000, 3000}
ConsistencyValues == {50, 80}
MarginValues == {200, 750, 1700}
StabilityValues == {0, 100}
IvPercentileValues == {5000, 9000}

CCInputs ==
    [iv_rank : IvRankValues, roi_30d : RoiValues,
     trend_strength : TrendStrengthValues, dividend_yield : DividendValues,
     theta : ThetaValues, gamma : GammaValues, vega : VegaValues,
     below_200sma : BOOLEAN, spread_pct : SpreadValues,
     near_earnings : BOOLEAN, oi : OiValues,
     trend_consistency : ConsistencyValues, contrarian_signal : Signals,
     margin_of_safety : {0}, trend_stability : {50}, in_uptrend : {FALSE},
     iv_percentile : {0}]

CSPInputs ==
    [iv_rank : IvRankValues, roi_30d : RoiValues,
     trend_strength : {0}, dividend_yield : {0},
     theta : ThetaValues, gamma : GammaValues, vega : VegaValues,
     below_200sma : {FALSE}, spread_pct : SpreadValues,
     near_earnings : BOOLEAN, oi : OiValues,
     trend_consistency : {50}, contrarian_signal : Signals,
     margin_of_safety : MarginValues, trend_stability : StabilityValues,
     in_uptrend : BOOLEAN, iv_percentile : IvPercentileValues]

(* Example 1, NBIS covered call: the inputs of the score calculation *)
Example1Input ==
    [iv_rank |-> 10000, roi_30d |-> 786, trend_strength |-> 0,
     dividend_yield |-> 0, theta |-> -2764, gamma |-> 90, vega |-> 1557,
     below_200sma |-> FALSE, spread_pct |-> 5, near_earnings |-> FALSE,
     oi |-> 1000, trend_consistency |-> 50, contrarian_signal |-> "none",
     margin_of_safety |-> 0, trend_stability |-> 50, in_uptrend |-> FALSE,
     iv_percentile |-> 0]

(* Example 2, HOOD cash-secured put: the inputs of the score calculation *)
Example2Input ==
    [iv_rank |-> 7321, roi_30d |-> 520, trend_strength |-> 0,
     dividend_yield |-> 0, theta |-> -1521, gamma |-> 12, vega |-> 2134,
     below_200sma |-> FALSE, spread_pct |-> 5, near_earnings |-> FALSE,
     oi |-> 1000, trend_consistency |-> 50, contrarian_signal |-> "none",
     margin_of_safety |-> 949, trend_stability |-> 50, in_uptrend |-> FALSE,
     iv_percentile |-> 5000]

NoInput ==
    [iv_rank |-> 0, roi_30d |-> 0, trend_strength |-> 0,
     dividend_yield |-> 0, theta |-> 0, gamma |-> 0, vega |-> 0,
     below_200sma |-> FALSE, spread_pct |-> 0, near_earnings |-> FALSE,
     oi |-> 0, trend_consistency |-> 0, contrarian_signal |-> "none",
     margin_of_safety |-> 0, trend_stability |-> 0, in_uptrend |-> FALSE,
     iv_percentile |-> 0]

NoResult == [c |-> <<>>, base |-> 0, pre |-> <<0>>, one |-> <<1>>,
             score |-> <<0>>]

NoSentiment == [put_call_ratio |-> Null, cmf_20 |-> Null,
                contrarian_signal |-> "none"]

(* the stock price of the modelled symbol: $100.00 *)
SpotPrice == 100 * 100

(* contracts around every bound of the hard filters *)
FilterContracts ==
    [side : {"call", "put"}, dte : {29, 30, 45, 46},
     absdelta : {2000, 2499, 2500, 2800, 3000, 3001, 3500, 3501, 4000},
     strike : {9499, 9500, 9800, 9801, 10199, 10200, 10500, 10501},
     oi : {499, 500}, volume : {49, 50},
     quote : {<<100, 110>>, <<95, 105>>, <<95, 106>>, <<1, 1>>}]

Contract(side, dte, absdelta, strike, oi, volume, bid, ask) ==
    [side |-> side, dte |-> dte,
     delta |-> IF side = "call" THEN absdelta ELSE -absdelta,
     strike |-> strike, oi |-> oi, volume |-> volume, bid |-> bid,
     ask |-> ask, theta |-> -1000, gamma |-> 8, vega |-> 1500]

(* the contracts of the modelled chains *)
ScreenContracts ==
    {Contract(f.side, f.dte, f.absdelta,
              IF f.side = "call" THEN 10300 + f.far * 100
                                 ELSE 9700 - f.far * 100,
              f.oi, 100, f.quote[1], f.quote[2]) :
        f \in [side : {"call", "put"}, dte : {30, 45},
               absdelta : {2800, 4000}, far : {0, 1}, oi : {400, 600},
               quote : {<<100, 104>>, <<147, 153>>}]}

MaxChain == 2

RECURSIVE ChainsUpTo(_)
ChainsUpTo(n) ==
    IF n = 0 THEN {{}}
    ELSE LET prev == ChainsUpTo(n - 1)
         IN  prev \cup {ch \cup {c} : ch \in prev, c \in ScreenContracts}

(* calls at delta 0.20, 0.28 and 0.40, the middle one with too little      *)
(* open interest                                                           *)
ScenarioChain ==
    {Contract("call", 40, 2000, 10300, 600, 100, 100, 104),
     Contract("call", 40, 2800, 10300, 400, 100, 100, 104),
     Contract("call", 40, 4000, 10300, 600, 100, 100, 104)}

(* the symbol-level scoring inputs of the modelled screenings *)
SymbolInputs ==
    {[NoInput EXCEPT !.iv_rank = s.iv_rank,
                     !.contrarian_signal = s.contrarian_signal,
                     !.trend_stability = 50, !.trend_consistency = 50,
                     !.iv_percentile = s.iv_rank] :
        s \in [iv_rank : {8000}, contrarian_signal : {"none", "long"}]}

(* The two picks the production run of the worked examples recorded, with  *)
(* their market data.  The examples give the premium (mid) only: bid = ask *)
(* = premium, and open interest and volume are taken above the minimums.   *)
RecordedPicks ==
    {[symbol |-> "NBIS", strategy |-> "CC", stock_price |-> 13082,
      contract |-> [side |-> "call", dte |-> 40, delta |-> 5303,
                    strike |-> 13500, oi |-> 1000, volume |-> 100,
                    bid |-> 1371, ask |-> 1371, theta |-> -2764,
                    gamma |-> 90, vega |-> 1557],
      score |-> 7534],
     [symbol |-> "HOOD", strategy |-> "CSP", stock_price |-> 15578,
      contract |-> [side |-> "put", dte |-> 40, delta |-> -2847,
                    strike |-> 14100, oi |-> 1000, volume |-> 100,
                    bid |-> 978, ask |-> 978, theta |-> -1521,
                    gamma |-> 12, vega |-> 2134],
      score |-> 6716]}

PcrValues == {Null} \cup {<<v>> : v \in {55, 89, 90, 91, 105, 119, 120, 121, 215}}
CmfValues == {Null} \cup {<<v>> : v \in {-16, -6, -5, -4, 2, 4, 5, 6, 18}}

(***************************************************************************)
(* The parts of the system a specification does not exercise are at rest   *)
(***************************************************************************)
NoStats == [attempted |-> 0, succeeded |-> 0, failed |-> 0]
NoTables == [picks |-> {}, rationales |-> {}, earnings |-> {},
             pipeline_runs |-> {}, monitoring_alerts |-> {}]
NoRanking == [asof |-> 0, picks |-> <<>>]
NoRequest == [route |-> "none", query |-> <<>>]
NoResponse == [route |-> "none", http |-> 0, body |-> <<>>]

CoreIdle ==
    /\ pc = "idle"
    /\ strategy = "CC"
    /\ inp = NoInput
    /\ res = NoResult
    /\ contract = NoContract
    /\ verdict = "none"
    /\ stock_price = 0
    /\ chain = {}
    /\ selected = NoContract
    /\ picks = {}
    /\ sentiment = NoSentiment

NoScript ==
    [pc |-> "none", cd_ok |-> TRUE, venv_ok |-> TRUE, python_exit |-> 0,
     tee_exit |-> 0, exit_code |-> 0, log |-> <<>>, notifications |-> <<>>]

PipelineIdle ==
    /\ stage = "Idle"
    /\ run_date = 0
    /\ universe = {}
    /\ survivors = {}
    /\ forwarded = {}
    /\ scan_log = <<>>
    /\ feed = <<>>
    /\ progress = <<>>
    /\ run_picks = <<>>
    /\ ranking = NoRanking
    /\ run_stats = NoStats
    /\ notified = {}

RunIdle ==
    /\ PipelineIdle
    /\ script = NoScript

ApiIdle ==
    /\ db = "null"
    /\ tables = NoTables
    /\ request = NoRequest
    /\ response = NoResponse

(***************************************************************************)
(* The scoring engine applied to one set of inputs                         *)
(***************************************************************************)
InitScore ==
    /\ RunIdle
    /\ ApiIdle
    /\ pc = "input"
    /\ strategy \in {"CC", "CSP"}
    /\ inp \in IF strategy = "CC" THEN CCInputs \cup {Example1Input}
                                  ELSE CSPInputs \cup {Example2Input}
    /\ res = NoResult
    /\ contract = NoContract
    /\ verdict = "none"
    /\ stock_price = 0
    /\ chain = {}
    /\ selected = NoContract
    /\ picks = {}
    /\ sentiment = NoSentiment

cc_score ==
    /\ pc = "input"
    /\ strategy = "CC"
    /\ res' = cc_score_of(inp)
    /\ pc' = "scored"
    /\ UNCHANGED <<runVars, apiVars,
                   strategy, inp, filterVars, screenVars, sentiment>>

csp_score ==
    /\ pc = "input"
    /\ strategy = "CSP"
    /\ res' = csp_score_of(inp)
    /\ pc' = "scored"
    /\ UNCHANGED <<runVars, apiVars,
                   strategy, inp, filterVars, screenVars, sentiment>>

NextScore == cc_score \/ csp_score

SpecScore == InitScore /\ [][NextScore]_vars

(***************************************************************************)
(* The hard filters applied to one contract                                *)
(***************************************************************************)
InitFilter ==
    /\ RunIdle
    /\ ApiIdle
    /\ pc = "input"
    /\ strategy \in {"CC", "CSP"}
    /\ stock_price = SpotPrice
    /\ \E f \in FilterContracts :
          contract = Contract(f.side, f.dte, f.absdelta, f.strike, f.oi,
                              f.volume, f.quote[1], f.quote[2])
    /\ verdict = "none"
    /\ inp = NoInput
    /\ res = NoResult
    /\ chain = {}
    /\ selected = NoContract
    /\ picks = {}
    /\ sentiment = NoSentiment

apply_hard_filters ==
    /\ pc = "input"
    /\ verdict' = filter_reason(contract, strategy, stock_price)
    /\ pc' = "filtered"
    /\ UNCHANGED <<runVars, apiVars,
                   scoreVars, contract, screenVars, sentiment>>

NextFilter == apply_hard_filters

SpecFilter == InitFilter /\ [][NextFilter]_vars

(***************************************************************************)
(* The screening of one symbol for one strategy: select, score, store      *)
(***************************************************************************)
InitScreen ==
    /\ RunIdle
    /\ ApiIdle
    /\ pc = "fetched"
    /\ strategy \in {"CC", "CSP"}
    /\ \/ /\ stock_price = SpotPrice
          /\ chain \in ChainsUpTo(MaxChain) \cup {ScenarioChain}
       \/ \E r \in RecordedPicks :
             /\ strategy = r.strategy
             /\ stock_price = r.stock_price
             /\ chain = {r.contract}
    /\ inp \in SymbolInputs
    /\ res = NoResult
    /\ selected = NoContract
    /\ picks = {}
    /\ contract = NoContract
    /\ verdict = "none"
    /\ sentiment = NoSentiment

Pick(strat, spot, c, score, one) ==
    [strategy |-> strat, stock_price |-> spot, contract |-> c,
     score |-> score, one |-> one]

(* screen_cc / screen_csp: no eligible contract, no pick *)
screen_none ==
    /\ pc = "fetched"
    /\ eligible_contracts(chain, strategy, stock_price) = {}
    /\ selected' = NoContract
    /\ pc' = "no_pick"
    /\ UNCHANGED <<runVars, apiVars,
                   scoreVars, filterVars, stock_price, chain, picks,
                   sentiment>>

(* screen_cc: the best call by roi_30d, scored *)
screen_cc ==
    /\ pc = "fetched"
    /\ strategy = "CC"
    /\ \E c \in best_by_roi(chain, strategy, stock_price) :
          /\ selected' = c
          /\ inp' = pick_inputs(inp, c, strategy, stock_price)
          /\ res' = cc_score_of(inp')
    /\ pc' = "screened"
    /\ UNCHANGED <<runVars, apiVars,
                   strategy, filterVars, stock_price, chain, picks,
                   sentiment>>

(* screen_csp: the best put by roi_30d, scored *)
screen_csp ==
    /\ pc = "fetched"
    /\ strategy = "CSP"
    /\ \E c \in best_by_roi(chain, strategy, stock_price) :
          /\ selected' = c
          /\ inp' = pick_inputs(inp, c, strategy, stock_price)
          /\ res' = csp_score_of(inp')
    /\ pc' = "screened"
    /\ UNCHANGED <<runVars, apiVars,
                   strategy, filterVars, stock_price, chain, picks,
                   sentiment>>

insert_pick ==
    /\ pc = "screened"
    /\ picks' = picks \cup {Pick(strategy, stock_price, selected, res.score,
                                 res.one)}
    /\ pc' = "stored"
    /\ UNCHANGED <<runVars, apiVars,
                   scoreVars, filterVars, stock_price, chain, selected,
                   sentiment>>

(* the run of the worked examples: the recorded pick, with its recorded    *)
(* score, was scored and stored for the example's contract                 *)
recorded_pick ==
    /\ pc = "fetched"
    /\ \E r \in RecordedPicks :
          /\ strategy = r.strategy
          /\ stock_price = r.stock_price
          /\ r.contract \in chain
          /\ picks' = picks \cup {Pick(strategy, stock_price, r.contract,
                                       BigOf(r.score), BigOf(10000))}
    /\ pc' = "stored"
    /\ UNCHANGED <<runVars, apiVars,
                   scoreVars, filterVars, stock_price, chain, selected,
                   sentiment>>

NextScreen ==
    screen_none \/ screen_cc \/ screen_csp \/ insert_pick \/ recorded_pick

SpecScreen == InitScreen /\ [][NextScreen]_vars

(***************************************************************************)
(* The contrarian signal of one symbol                                     *)
(***************************************************************************)
InitSentiment ==
    /\ RunIdle
    /\ ApiIdle
    /\ pc = "input"
    /\ sentiment \in [put_call_ratio : PcrValues, cmf_20 : CmfValues,
                      contrarian_signal : {"none"}]
    /\ strategy = "CC"
    /\ inp = NoInput
    /\ res = NoResult
    /\ contract = NoContract
    /\ verdict = "none"
    /\ stock_price = 0
    /\ chain = {}
    /\ selected = NoContract
    /\ picks = {}

sentiment_signal ==
    /\ pc = "input"
    /\ sentiment' =
          [sentiment EXCEPT !.contrarian_signal =
              derive_contrarian_signal(sentiment.put_call_ratio,
                                       sentiment.cmf_20)]
    /\ pc' = "derived"
    /\ UNCHANGED <<runVars, apiVars,
                   scoreVars, filterVars, screenVars>>

NextSentiment == sentiment_signal

SpecSentiment == InitSentiment /\ [][NextSentiment]_vars

(***************************************************************************)
(* Properties                                                              *)
(***************************************************************************)

(* C1: for all valid inputs, whichever bonus and penalty multipliers       *)
(* apply, the final CC score and the final CSP score are in [0,1].         *)
ScoreBounded ==
    pc = "scored" => /\ BigLeq(<<0>>, res.score)
                     /\ BigLeq(res.score, res.one)

(* a covered call with every bonus and no penalty, whose adjusted score    *)
(* exceeds 1.0 and is capped                                               *)
ScoreBoundedWitness ==
    /\ pc = "scored"
    /\ strategy = "CC"
    /\ inp.oi > 2000
    /\ inp.trend_consistency > 70
    /\ inp.contrarian_signal = "long"
    /\ ~inp.below_200sma
    /\ inp.spread_pct <= 7
    /\ ~inp.near_earnings
    /\ BigLess(res.one, res.pre)
    /\ res.score = res.one

(* the hard filters as the claim C2 states them, on contract c *)
AllBoundsHold(c, strat, spot) ==
    /\ c.side = IF strat = "CC" THEN "call" ELSE "put"
    /\ c.dte \in 30..45
    /\ IF strat = "CC" THEN c.delta \in 2500..3500
                       ELSE Abs(c.delta) \in 2500..3000
    /\ IF strat = "CC"
       THEN 102 * spot <= 100 * c.strike /\ 100 * c.strike <= 105 * spot
       ELSE 95 * spot <= 100 * c.strike /\ 100 * c.strike <= 98 * spot
    /\ c.oi >= 500
    /\ c.volume >= 50
    /\ 100 * 2 * (c.ask - c.bid) <= 10 * (c.bid + c.ask)
    /\ c.bid + c.ask > 2 * 1

(* C2: a contract is eligible for a strategy if and only if all the hard   *)
(* filters hold at once (days to expiry, delta, strike range, open         *)
(* interest, volume, spread, mid price), bounds inclusive as written.      *)
FilterCorrectness ==
    pc = "filtered" =>
        (verdict = "ok" <=> AllBoundsHold(contract, strategy, stock_price))

(* a call that sits on the inclusive bounds, and is eligible *)
FilterCorrectnessWitness ==
    /\ pc = "filtered"
    /\ strategy = "CC"
    /\ verdict = "ok"
    /\ contract.dte = 30
    /\ contract.delta = 2500
    /\ contract.strike = 10200
    /\ contract.oi = 500
    /\ contract.volume = 50
    /\ 10 * (contract.ask - contract.bid) * 2 = contract.bid + contract.ask

(* C3: every contract that is scored and stored as a pick passed all the   *)
(* hard filters of its strategy.                                           *)
OnlyFilteredContractsStored ==
    \A p \in picks : AllBoundsHold(p.contract, p.strategy, p.stock_price)

SignalCorrect ==
    pc = "derived" =>
        LET p == sentiment.put_call_ratio
            m == sentiment.cmf_20
            known == p # Null /\ m # Null
            isLong == known /\ p[1] >= 120 /\ m[1] >= 5
            isShort == known /\ p[1] <= 90 /\ m[1] <= -5
        IN  /\ sentiment.contrarian_signal = "long" <=> isLong
            /\ sentiment.contrarian_signal = "short" <=> isShort
            /\ sentiment.contrarian_signal = "none" <=> ~isLong /\ ~isShort
            /\ (p = <<215>> /\ m = <<18>>) =>
                   sentiment.contrarian_signal = "long"
            /\ (p = <<55>> /\ m = <<-16>>) =>
                   sentiment.contrarian_signal = "short"
            /\ (p = <<105>> /\ m = <<2>>) =>
                   sentiment.contrarian_signal = "none"

(* both readings on their inclusive thresholds: long *)
SignalCorrectWitness ==
    /\ pc = "derived"
    /\ sentiment.put_call_ratio = <<120>>
    /\ sentiment.cmf_20 = <<5>>
    /\ sentiment.contrarian_signal = "long"

(* the result of scoring the current inputs under another signal *)
ScoreUnder(signal) ==
    score_of(strategy, [inp EXCEPT !.contrarian_signal = signal])

(* C6: all else fixed, the score before the final clamp under "long" is    *)
(* 1.10 times, and under "short" 0.95 times (CC) or 0.90 times (CSP), the  *)
(* score under "none", which is the score without sentiment adjustment;    *)
(* hence final score(long) >= final score(none) >= final score(short).     *)
SentimentRatios ==
    pc = "scored" =>
        LET long == ScoreUnder("long")
            short == ScoreUnder("short")
            none == ScoreUnder("none")
            others == IF strategy = "CC"
                      THEN SubSeq(cc_adjustments(inp), 1, 5)
                      ELSE SubSeq(csp_adjustments(inp), 1, 6)
        IN  /\ res = ScoreUnder(inp.contrarian_signal)
            /\ BigMul(long.pre, 100) = BigMul(none.pre, 110)
            /\ BigMul(short.pre, 100) =
                   BigMul(none.pre, IF strategy = "CC" THEN 95 ELSE 90)
            /\ none.pre = BigMul(ApplyAdjustments(BigOf(none.base), others),
                                 100)
            /\ long.one = none.one /\ short.one = none.one
            /\ BigLeq(none.score, long.score)
            /\ BigLeq(short.score, none.score)

(* a covered call scored under "short", strictly below its score under     *)
(* "none"                                                                  *)
SentimentRatiosWitness ==
    /\ pc = "scored"
    /\ strategy = "CC"
    /\ inp.contrarian_signal = "short"
    /\ BigLess(res.score, ScoreUnder("none").score)

SumOfWeights(w) ==
    LET RECURSIVE Sum(_)
        Sum(keys) == IF keys = {} THEN 0
                     ELSE LET k == CHOOSE x \in keys : TRUE
                          IN  w[k] + Sum(keys \ {k})
    IN  Sum(DOMAIN w)

(* every component of the scored inputs has its full score *)
AllComponentsFull ==
    /\ inp.iv_rank >= 9500
    /\ inp.roi_30d >= 300
    /\ -inp.theta \in 500..1500
    /\ inp.gamma <= 10
    /\ inp.vega > 2000
    /\ IF strategy = "CC"
       THEN inp.trend_strength = 100 /\ inp.dividend_yield >= 50
       ELSE inp.margin_of_safety >= 1650 /\ inp.trend_stability = 100

(* C7: the seven CC base-score weights (dividend included) sum to exactly  *)
(* 1.00 and so do the seven CSP weights: a pick whose components all have  *)
(* their full score has base score exactly 1.0.                            *)
WeightConservation ==
    /\ Cardinality(DOMAIN CC_SCORING_WEIGHTS) = 7
    /\ SumOfWeights(CC_SCORING_WEIGHTS) = 100
    /\ Cardinality(DOMAIN CSP_SCORING_WEIGHTS) = 7
    /\ SumOfWeights(CSP_SCORING_WEIGHTS) = 100
    /\ (pc = "scored" /\ AllComponentsFull) => res.base = Unit

(* a covered call whose seven components all have their full score *)
WeightConservationWitness ==
    /\ pc = "scored"
    /\ strategy = "CC"
    /\ AllComponentsFull
    /\ res.base = Unit

(* |x - v / 1000| <= tol / 10000, x in score units *)
Approx(x, v, tol) == Abs(10000 * x - 10 * v * Unit) <= tol * Unit

MarginComponentAt(m) ==
    csp_components([inp EXCEPT !.margin_of_safety = m]).margin

(* increases of margin_of_safety: 0.5, 1, 3 and 9 percentage points *)
MarginBumps == {50, 100, 300, 900}

(* C10 as stated: the margin component increases as margin_of_safety rises *)
(* toward the 7.5% target and, once margin_of_safety is past the target,   *)
(* does not increase any further.                                          *)
MarginPeaksAtTarget ==
    (pc = "scored" /\ strategy = "CSP") =>
        \A d \in MarginBumps :
            /\ inp.margin_of_safety + d <= 750 =>
                   MarginComponentAt(inp.margin_of_safety + d) > res.c.margin
            /\ inp.margin_of_safety >= 750 =>
                   MarginComponentAt(inp.margin_of_safety + d) <= res.c.margin

(* C10, amended: the margin component never decreases as margin_of_safety  *)
(* rises; it increases strictly, by the same amount for the same rise      *)
(* below and above the 7.5% target (where it is half its weight, 0.075),   *)
(* as long as margin_of_safety is below 16.5%, and from 16.5% on it stays  *)
(* at its full weight 0.15.                                                *)
MarginMonotone ==
    (pc = "scored" /\ strategy = "CSP") =>
        LET m == inp.margin_of_safety
        IN  /\ res.c.margin = MarginComponentAt(m)
            /\ MarginComponentAt(750) * 2 = (Unit * 15) \div 100
            /\ \A d \in MarginBumps :
                  /\ MarginComponentAt(m + d) >= res.c.margin
                  /\ m < 1650 => MarginComponentAt(m + d) > res.c.margin
                  /\ m >= 1650 =>
                        /\ MarginComponentAt(m + d) = res.c.margin
                        /\ res.c.margin = (Unit * 15) \div 100
                  /\ MarginComponentAt(750 + d) - MarginComponentAt(750)
                         = MarginComponentAt(750) - MarginComponentAt(750 - d)

(* a put scored with a margin of safety past the target, whose margin      *)
(* component is above the component at the target                          *)
MarginMonotoneWitness ==
    /\ pc = "scored"
    /\ strategy = "CSP"
    /\ inp.margin_of_safety > 750
    /\ res.c.margin > MarginComponentAt(750)

(***************************************************************************)
(* IV Metrics Module: iv_rank and iv_percentile of today's implied         *)
(* volatility within its trailing series.  Implied volatility is in 1/100  *)
(* of a percent (11374 is 113.74%); iv_rank and iv_percentile in 1/100 of  *)
(* a point.                                                                *)
(***************************************************************************)
SeqRange(s) == {s[i] : i \in DOMAIN s}
SetMin(S) == CHOOSE x \in S : \A y \in S : x <= y
SetMax(S) == CHOOSE x \in S : \A y \in S : y <= x

(* a division as the interpreter performs it: a zero divisor is an error *)
Quotient(n, d) ==
    IF d = 0 THEN [error |-> "ZeroDivisionError", value |-> 0]
             ELSE [error |-> "none", value |-> n \div d]

iv_rank_unclamped(today_iv, trailing) ==
    LET mn == SetMin(SeqRange(trailing))
        mx == SetMax(SeqRange(trailing))
    IN  IF mx = mn THEN [error |-> "none", value |-> 5000]
        ELSE Quotient((today_iv - mn) * 10000, mx - mn)

iv_rank(today_iv, trailing) ==
    LET mn == SetMin(SeqRange(trailing))
        mx == SetMax(SeqRange(trailing))
        q == Quotient((today_iv - mn) * 10000, mx - mn)
    IN  IF mx = mn THEN [error |-> "none", value |-> 5000]
        ELSE [q EXCEPT !.value = Max(0, Min(10000, q.value))]

iv_percentile(today_iv, trailing) ==
    Quotient(Cardinality({i \in DOMAIN trailing : trailing[i] < today_iv})
                * 10000, Len(trailing))

MaxWindow == 3
TodayIvValues == {1500, 2000, 3000, 4000, 5000, 11374}
TrailingIvValues == {2000, 3000, 5000}
TrailingWindows ==
    UNION {[1..n -> TrailingIvValues] : n \in 1..MaxWindow}

(* the core variables a single computation does not use *)
ComputationIdle ==
    /\ strategy = "CC"
    /\ contract = NoContract
    /\ verdict = "none"
    /\ stock_price = 0
    /\ chain = {}
    /\ selected = NoContract
    /\ picks = {}
    /\ sentiment = NoSentiment

InitIv ==
    /\ RunIdle
    /\ ApiIdle
    /\ ComputationIdle
    /\ pc = "input"
    /\ inp \in [today_iv : TodayIvValues, trailing : TrailingWindows]
    /\ res = NoResult

iv_metrics ==
    /\ pc = "input"
    /\ res' = [iv_rank |-> iv_rank(inp.today_iv, inp.trailing),
               iv_percentile |-> iv_percentile(inp.today_iv, inp.trailing)]
    /\ pc' = "computed"
    /\ UNCHANGED <<runVars, apiVars, strategy, inp, filterVars, screenVars,
                   sentiment>>

NextIv == iv_metrics

SpecIv == InitIv /\ [][NextIv]_vars

(* C11: for every today's IV and every non-empty trailing window iv_rank   *)
(* is computed without a division by zero and lies in [0,100]: it is 0     *)
(* when today's IV is at or below the trailing minimum, 100 when it is at  *)
(* or above the trailing maximum, and exactly 50 when all trailing         *)
(* observations are equal.                                                 *)
IvRankBounded ==
    pc = "computed" =>
        LET t == inp.trailing
            flat == \A i, j \in DOMAIN t : t[i] = t[j]
            below == \A i \in DOMAIN t : inp.today_iv <= t[i]
            above == \A i \in DOMAIN t : inp.today_iv >= t[i]
        IN  /\ res.iv_rank.error = "none"
            /\ res.iv_rank.value >= 0
            /\ res.iv_rank.value <= 100 * 100
            /\ flat => res.iv_rank.value = 50 * 100
            /\ (~flat /\ below) => res.iv_rank.value = 0
            /\ (~flat /\ above) => res.iv_rank.value = 100 * 100

(* today's IV above the trailing maximum, clamped to 100, and a flat       *)
(* window giving 50 *)
IvRankBoundedWitness ==
    /\ pc = "computed"
    /\ Len(inp.trailing) >= 2
    /\ inp.today_iv = 11374
    /\ \/ /\ \E i, j \in DOMAIN inp.trailing : inp.trailing[i] # inp.trailing[j]
          /\ res.iv_rank.value = 10000
       \/ /\ \A i, j \in DOMAIN inp.trailing : inp.trailing[i] = inp.trailing[j]
          /\ res.iv_rank.value = 5000

(***************************************************************************)
(* Technical Indicator Engine.  A price history is a sequence of bars      *)
(* [high, low, close] in whole dollars, oldest first.  Sub-scores,         *)
(* trend_strength and trend_stability are in 1/10000 here.                 *)
(***************************************************************************)
MIN_BARS == 15
NoError == "none"

RECURSIVE SeqSum(_)
SeqSum(s) ==
    IF Len(s) = 0 THEN 0
    ELSE IF Len(s) = 1 THEN s[1]
    ELSE LET half == Len(s) \div 2
         IN  SeqSum(SubSeq(s, 1, half)) + SeqSum(SubSeq(s, half + 1, Len(s)))

Closes(bars) == [i \in DOMAIN bars |-> bars[i].close]

(* prices[-n:] : the last n elements, or all of them when there are fewer *)
LastN(s, n) == SubSeq(s, Max(1, Len(s) - n + 1), Len(s))

(* prices[-a:-b] : from the a-th last element up to, not including, the    *)
(* b-th last *)
FromEnd(s, a, b) == SubSeq(s, Max(1, Len(s) - a + 1), Len(s) - b)

RECURSIVE IsqrtBetween(_, _, _)
IsqrtBetween(n, lo, hi) ==
    IF lo >= hi THEN lo
    ELSE LET mid == (lo + hi + 1) \div 2
         IN  IF mid * mid <= n THEN IsqrtBetween(n, mid, hi)
                               ELSE IsqrtBetween(n, lo, mid - 1)

Isqrt(n) == IsqrtBetween(n, 0, Min(n, 46340))

Clamp(x, lo, hi) == Max(lo, Min(hi, x))

(* sma(n): the sum of the last n closes, available with n bars or more *)
sma_available(prices, n) == Len(prices) >= n
sma_sum(prices, n) == SeqSum(LastN(prices, n))

(* close > sma(n), as a score in 1/1000 of the weight w: the neutral       *)
(* midpoint when the average is unavailable *)
above_sma_score(prices, n, w) ==
    IF ~sma_available(prices, n) THEN w \div 2
    ELSE IF prices[Len(prices)] * n > sma_sum(prices, n) THEN w ELSE 0

(* sma(a) > sma(b) *)
sma_above(prices, a, b) == sma_sum(prices, a) * b > sma_sum(prices, b) * a

sma_order_score(prices, a, b, w) ==
    IF ~(sma_available(prices, a) /\ sma_available(prices, b)) THEN w \div 2
    ELSE IF sma_above(prices, a, b) THEN w ELSE 0

price_vs_sma_component(prices) ==
    LET price_score == above_sma_score(prices, 20, 330)
                       + above_sma_score(prices, 50, 330)
                       + above_sma_score(prices, 200, 340)
    IN  (price_score - 500) * 2 * 10

sma_alignment_component(prices) ==
    LET alignment_score == sma_order_score(prices, 20, 50, 500)
                           + sma_order_score(prices, 50, 200, 500)
    IN  (alignment_score - 500) * 2 * 10

Changes(prices) ==
    [i \in 1..(Len(prices) - 1) |-> prices[i + 1] - prices[i]]

(* (rsi - 50) / 50 with rsi = 100 - 100 / (1 + avg_gain / avg_loss), and    *)
(* rsi = 100 when avg_loss = 0 *)
rsi_momentum_component(prices) ==
    LET last14 == LastN(Changes(prices), 14)
        gain == SeqSum([i \in DOMAIN last14 |-> Max(0, last14[i])])
        loss == SeqSum([i \in DOMAIN last14 |-> Abs(Min(0, last14[i]))])
    IN  IF loss = 0 THEN [error |-> NoError, value |-> 10000]
        ELSE [error |-> NoError,
              value |-> Clamp(((gain - loss) * 10000) \div (gain + loss),
                              -10000, 10000)]

recent_momentum_component_unclamped(prices) ==
    LET recent == LastN(prices, 5)
        previous == FromEnd(prices, 10, 5)
    IN  IF Len(previous) = 0 \/ Len(recent) = 0
        THEN [error |-> "ZeroDivisionError", value |-> 0]
        ELSE Quotient((SeqSum(recent) * Len(previous)
                       - SeqSum(previous) * Len(recent)) * 100000,
                      SeqSum(previous) * Len(recent))

(* avg(prices[-5:]) against avg(prices[-10:-5]) *)
recent_momentum_component(prices) ==
    LET recent == LastN(prices, 5)
        previous == FromEnd(prices, 10, 5)
    IN  IF Len(previous) = 0 \/ Len(recent) = 0
        THEN [error |-> "ZeroDivisionError", value |-> 0]
        ELSE LET r == SeqSum(recent) * Len(previous)
                 q == SeqSum(previous) * Len(recent)
                 m == Quotient((r - q) * 100000, q)
             IN  [m EXCEPT !.value = Clamp(m.value, -10000, 10000)]

(* max(0, 1 - cv / 0.10), cv the coefficient of variation of prices[-20:] *)
volatility_component(prices) ==
    LET w == LastN(prices, 20)
        k == Len(w)
        sum == SeqSum(w)
        squares == SeqSum([i \in DOMAIN w |-> w[i] * w[i]])
        spread == k * squares - sum * sum
        cv10 == Quotient(Isqrt(100 * spread) * 10000, sum)
    IN  [cv10 EXCEPT !.value = Max(0, 10000 - cv10.value)]

(* |up_days - down_days| over the day-over-day changes of the last 20 bars *)
consistency_component(prices) ==
    LET recent_changes == Changes(LastN(prices, 20))
        up_days == Cardinality({i \in DOMAIN recent_changes :
                                   recent_changes[i] > 0})
        down_days == Cardinality({i \in DOMAIN recent_changes :
                                     recent_changes[i] < 0})
    IN  Quotient(Abs(up_days - down_days) * 10000, Len(recent_changes))

true_ranges(bars) ==
    [i \in 1..(Len(bars) - 1) |->
        Max(bars[i + 1].high - bars[i + 1].low,
            Max(Abs(bars[i + 1].high - bars[i].close),
                Abs(bars[i + 1].low - bars[i].close)))]

(* max(0, 1 - (atr / close) / 0.05), atr = sum(true_ranges[-14:]) / 14 *)
atr_component(bars) ==
    LET atr14 == SeqSum(LastN(true_ranges(bars), 14))
        q == Quotient(atr14 * 200000, 14 * bars[Len(bars)].close)
    IN  [q EXCEPT !.value = Max(0, 10000 - q.value)]

FirstError(rs) ==
    IF \E i \in DOMAIN rs : rs[i].error # NoError
    THEN rs[CHOOSE i \in DOMAIN rs :
               /\ rs[i].error # NoError
               /\ \A j \in DOMAIN rs : rs[j].error # NoError => i <= j].error
    ELSE NoError

(* the indicators computed from the history, whatever its length *)
computed_technical_features(bars) ==
    LET prices == Closes(bars)
        rsi == rsi_momentum_component(prices)
        mom == recent_momentum_component(prices)
        vol == volatility_component(prices)
        con == consistency_component(prices)
        atr == atr_component(bars)
    IN  [trend_strength |->
            (40 * price_vs_sma_component(prices)
             + 30 * sma_alignment_component(prices)
             + 20 * rsi.value + 10 * mom.value) \div 100,
         trend_stability |->
            (40 * vol.value + 30 * con.value + 30 * atr.value) \div 100,
         below_200sma |->
            /\ sma_available(prices, 200)
            /\ prices[Len(prices)] * 200 < sma_sum(prices, 200),
         in_uptrend |->
            /\ sma_available(prices, 200)
            /\ sma_above(prices, 20, 50)
            /\ sma_above(prices, 50, 200),
         error |-> FirstError(<<rsi, mom, vol, con, atr>>)]

compute_technical_features_unguarded(bars) ==
    computed_technical_features(bars)

(* the neutral fallback for a thin history *)
compute_technical_features(bars) ==
    IF Len(bars) < MIN_BARS
    THEN [trend_strength |-> 0, trend_stability |-> 5000,
          below_200sma |-> FALSE, in_uptrend |-> FALSE, error |-> NoError]
    ELSE computed_technical_features(bars)

MaxBars == 21
Bar(base, drift, swing, reach, i) ==
    LET close == base + drift * i + swing * (i % 2)
    IN  [high |-> close + reach, low |-> close - reach, close |-> close]

History(n, base, drift, swing, reach) ==
    [i \in 1..n |-> Bar(base, drift, swing, reach, i)]

Histories ==
    {History(n, base, drift, swing, reach) :
        n \in 1..MaxBars, base \in {30, 40}, drift \in {-1, 0, 1},
        swing \in {0, 2}, reach \in {0, 2}}

(* the 300 calendar days (about 207 bars) the pipeline fetches: a price    *)
(* that drifts by one dollar every 40 bars and jumps over the last five    *)
(* bars *)
FETCHED_BARS == 207

LongBar(base, drift, jump, reach, i) ==
    LET close == base + drift * (i \div 40)
                 + (IF i > FETCHED_BARS - 5 THEN jump ELSE 0)
    IN  [high |-> close + reach, low |-> close - reach, close |-> close]

LongHistories ==
    {[i \in 1..FETCHED_BARS |-> LongBar(base, drift, jump, reach, i)] :
        base \in {30, 60}, drift \in {-1, 0, 1}, jump \in {-10, 0, 10},
        reach \in {0, 2}}

InitTechnicals ==
    /\ RunIdle
    /\ ApiIdle
    /\ ComputationIdle
    /\ pc = "input"
    /\ inp \in Histories \cup LongHistories
    /\ res = NoResult

technical_features ==
    /\ pc = "input"
    /\ res' = compute_technical_features(inp)
    /\ pc' = "computed"
    /\ UNCHANGED <<runVars, apiVars, strategy, inp, filterVars, screenVars,
                   sentiment>>

NextTechnicals == technical_features

SpecTechnicals == InitTechnicals /\ [][NextTechnicals]_vars

(* C12: a price history of 1 to 14 bars raises no error and gives the      *)
(* neutral fallback trend_strength = 0 and trend_stability = 0.5, both     *)
(* inside their ranges, with below_200sma false.                           *)
ThinHistoryFallback ==
    (pc = "computed" /\ Len(inp) >= 1 /\ Len(inp) < 15) =>
        /\ res.error = "none"
        /\ res.trend_strength = 0
        /\ res.trend_stability = 5000
        /\ res.trend_strength >= -10000 /\ res.trend_strength <= 10000
        /\ res.trend_stability >= 0 /\ res.trend_stability <= 10000
        /\ res.below_200sma = FALSE

(* the engine has answered for a history of exactly one bar *)
ThinHistoryFallbackWitness ==
    /\ pc = "computed"
    /\ Len(inp) = 1
    /\ res.trend_stability = 5000

(* C24: for every price history long enough to compute the indicators     *)
(* (15 bars or more here, up to the 207 bars of a full fetch) the engine   *)
(* raises no error, trend_strength lies in [-1,1] and trend_stability in   *)
(* [0,1].                                                                  *)
TrendBounds ==
    (pc = "computed" /\ Len(inp) >= 15) =>
        /\ res.error = "none"
        /\ res.trend_strength >= -10000
        /\ res.trend_strength <= 10000
        /\ res.trend_stability >= 0
        /\ res.trend_stability <= 10000

(* a full history whose last five bars jump by more than 10%: every        *)
(* sub-score of the trend is at its maximum *)
TrendBoundsWitness ==
    /\ pc = "computed"
    /\ Len(inp) = 207
    /\ inp[207].close >= inp[200].close + 10
    /\ res.trend_strength = 10000

(***************************************************************************)
(* Daily orchestration pipeline.  One run visits                           *)
(*   Idle -> LoadUniverse -> SentimentFilter -> PerSymbolScreen -> Persist *)
(*        -> Notify -> Idle                                                *)
(* stage names the work in progress; the action that leaves a stage        *)
(* performs its work.  The symbols of PerSymbolScreen are independent:     *)
(* any unfinished symbol may take its next step.                           *)
(***************************************************************************)
Stages == <<"Idle", "LoadUniverse", "SentimentFilter", "PerSymbolScreen",
            "Persist", "Notify">>

(* universe.csv, in file order *)
SymbolOrder == <<"SPY", "AAPL", "NBIS">>
Symbols == SeqRange(SymbolOrder)
SymbolIndex(sym) == CHOOSE i \in DOMAIN SymbolOrder : SymbolOrder[i] = sym
UniverseFiles == {Symbols, {"SPY", "NBIS"}}

MAX_RETRIES == 3
RETRY_DELAY_SECONDS == 5
MAX_ATTEMPTS == 1 + MAX_RETRIES
MaxRuns == 1

(* What the data collaborators return for one symbol: the sentiment        *)
(* readings, the number of fetch attempts that fail before one succeeds    *)
(* (MAX_ATTEMPTS or more: none succeeds within the run), the number of     *)
(* price bars, and the scores (1/10000) of the picks its screening gives,  *)
(* Null for a strategy without eligible contract.                          *)
FeedProfiles ==
    {[put_call_ratio |-> <<215>>, cmf_20 |-> <<18>>, fetch_failures |-> 0,
      bars |-> 207, cc |-> <<6000>>, csp |-> <<7000>>],
     [put_call_ratio |-> <<55>>, cmf_20 |-> <<-16>>, fetch_failures |-> 2,
      bars |-> 207, cc |-> <<6000>>, csp |-> Null],
     [put_call_ratio |-> <<215>>, cmf_20 |-> <<18>>,
      fetch_failures |-> MAX_ATTEMPTS, bars |-> 207, cc |-> <<5000>>,
      csp |-> <<5000>>],
     [put_call_ratio |-> <<130>>, cmf_20 |-> <<6>>, fetch_failures |-> 0,
      bars |-> 10, cc |-> <<8000>>, csp |-> <<8000>>],
     [put_call_ratio |-> <<130>>, cmf_20 |-> <<2>>, fetch_failures |-> 0,
      bars |-> 207, cc |-> <<9000>>, csp |-> <<9000>>],
     [put_call_ratio |-> Null, cmf_20 |-> Null, fetch_failures |-> 0,
      bars |-> 207, cc |-> <<9500>>, csp |-> <<9500>>]}

(* step 1: the put/call ratio is in an extreme tail *)
sentiment_extreme(f) ==
    IF f.put_call_ratio = Null THEN "neutral"
    ELSE IF f.put_call_ratio[1] >= PCR_LONG_THRESHOLD THEN "negative"
    ELSE IF f.put_call_ratio[1] <= PCR_SHORT_THRESHOLD THEN "positive"
    ELSE "neutral"

step1_survivors(syms, fd) ==
    {sym \in syms : sentiment_extreme(fd[sym]) # "neutral"}

(* step 2: money flow diverges from the crowd *)
step2_survivors(syms, fd) ==
    {sym \in syms :
        derive_contrarian_signal(fd[sym].put_call_ratio, fd[sym].cmf_20)
            # "none"}

filter_decision(sym, fd, step1, step2) ==
    IF fd[sym].put_call_ratio = Null \/ fd[sym].cmf_20 = Null
        THEN "insufficient_data"
    ELSE IF sym \notin step1 THEN "no_extreme_sentiment"
    ELSE IF sym \notin step2 THEN "no_divergence"
    ELSE "passed"

(* the symbols the scan log gets a row for *)
logged_symbols_survivors(univ, step1) == step1
logged_symbols(univ, step1) == univ

scan_log_rows(date, univ, fd, step1, step2) ==
    LET logged == SelectSeq(SymbolOrder,
                            LAMBDA sym : sym \in logged_symbols(univ, step1))
    IN  [i \in DOMAIN logged |->
            [run_date |-> date, symbol |-> logged[i],
             contrarian_signal |->
                derive_contrarian_signal(fd[logged[i]].put_call_ratio,
                                         fd[logged[i]].cmf_20),
             passed_sentiment_filter |->
                IF logged[i] \in step2 THEN 1 ELSE 0,
             filter_reason |-> filter_decision(logged[i], fd, step1, step2)]]

NoProgress == [status |-> "skipped", attempts |-> 0, waited |-> 0,
               screenings |-> 0]

(* a symbol's screening is over: screened, or failed and counted *)
symbol_finished(p) == p.status \in {"screened", "fetch_failed",
                                    "insufficient_history"}

screening_finished_first(fwd, prog) ==
    \E sym \in fwd : symbol_finished(prog[sym])

(* the loop ends only when no symbol failed *)
screening_all_succeeded(fwd, prog) ==
    \A sym \in fwd : prog[sym].status = "screened"

screening_finished(fwd, prog) ==
    \A sym \in fwd : symbol_finished(prog[sym])

(* the retries of a failing fetch are exhausted *)
(* one attempt too many *)
retries_exhausted_late(attempts) == attempts >= MAX_ATTEMPTS + 1

retries_exhausted_first(attempts) == attempts >= 1
retries_exhausted(attempts) == attempts >= MAX_ATTEMPTS

symbol_picks(date, sym, f) ==
    (IF f.cc = Null THEN <<>>
     ELSE <<[asof |-> date, symbol |-> sym, strategy |-> "CC",
             score |-> f.cc[1]]>>)
    \o (IF f.csp = Null THEN <<>>
        ELSE <<[asof |-> date, symbol |-> sym, strategy |-> "CSP",
                score |-> f.csp[1]]>>)

(* a ranks before b: higher score first; equal scores by symbol, then      *)
(* strategy *)
ranks_before(a, b) ==
    \/ a.score > b.score
    \/ /\ a.score = b.score
       /\ \/ SymbolIndex(a.symbol) < SymbolIndex(b.symbol)
          \/ /\ a.symbol = b.symbol
             /\ a.strategy = "CC"
             /\ b.strategy = "CSP"

RECURSIVE InsertRanked(_, _, _)
InsertRanked(before(_, _), ranked, pick) ==
    IF ranked = <<>> THEN <<pick>>
    ELSE IF before(pick, ranked[1]) THEN <<pick>> \o ranked
    ELSE <<ranked[1]>> \o InsertRanked(before, Tail(ranked), pick)

RECURSIVE SortPicks(_, _)
SortPicks(before(_, _), found) ==
    IF found = <<>> THEN <<>>
    ELSE InsertRanked(before,
                      SortPicks(before, SubSeq(found, 1, Len(found) - 1)),
                      found[Len(found)])

higher_score(a, b) == a.score > b.score

(* a stable sort on the score alone: equal scores stay in the order the    *)
(* picks were produced *)
rank_picks_by_score_only(found) == SortPicks(higher_score, found)

rank_picks(found) == SortPicks(ranks_before, found)

HISTORICAL_BARS_REQUIRED == 200

InitRun ==
    /\ CoreIdle
    /\ ApiIdle
    /\ stage = "Idle"
    /\ run_date = 0
    /\ universe = {}
    /\ survivors = {}
    /\ forwarded = {}
    /\ scan_log = <<>>
    /\ feed \in [Symbols -> FeedProfiles]
    /\ progress = [sym \in Symbols |-> NoProgress]
    /\ run_picks = <<>>
    /\ ranking = NoRanking
    /\ run_stats = NoStats
    /\ notified = {}
    /\ script = NoScript

(* Idle -> LoadUniverse: the daily trigger *)
start_run ==
    /\ stage = "Idle"
    /\ run_date < MaxRuns
    /\ stage' = "LoadUniverse"
    /\ run_date' = run_date + 1
    /\ universe' = {}
    /\ survivors' = {}
    /\ forwarded' = {}
    /\ progress' = [sym \in Symbols |-> NoProgress]
    /\ run_picks' = <<>>
    /\ run_stats' = NoStats
    /\ UNCHANGED <<coreVars, apiVars, script, scan_log, feed, ranking, notified>>

(* LoadUniverse -> SentimentFilter: the symbols are read *)
load_universe ==
    /\ stage = "LoadUniverse"
    /\ universe' \in UniverseFiles
    /\ stage' = "SentimentFilter"
    /\ UNCHANGED <<coreVars, apiVars, script, run_date, survivors, forwarded,
                   scan_log, feed, progress, run_picks, ranking, run_stats,
                   notified>>

(* SentimentFilter -> PerSymbolScreen: the two-step filter, logged *)
sentiment_filter ==
    /\ stage = "SentimentFilter"
    /\ LET step1 == step1_survivors(universe, feed)
           step2 == step2_survivors(step1, feed)
       IN  /\ survivors' = step1
           /\ forwarded' = step2
           /\ scan_log' = scan_log
                  \o scan_log_rows(run_date, universe, feed, step1, step2)
           /\ progress' = [sym \in Symbols |->
                  IF sym \in step2
                  THEN [NoProgress EXCEPT !.status = "pending"]
                  ELSE NoProgress]
    /\ stage' = "PerSymbolScreen"
    /\ UNCHANGED <<coreVars, apiVars, script, run_date, universe, feed, run_picks,
                   ranking, run_stats, notified>>

(* one attempt to fetch a symbol's market data; a failed attempt is        *)
(* retried after the delay until the retries are exhausted *)
fetch_attempt(sym) ==
    /\ stage = "PerSymbolScreen"
    /\ sym \in forwarded
    /\ progress[sym].status = "pending"
    /\ LET p == progress[sym]
           n == p.attempts + 1
           first == IF p.attempts = 0 THEN 1 ELSE 0
       IN  IF n > feed[sym].fetch_failures
           THEN /\ progress' = [progress EXCEPT ![sym] =
                       [p EXCEPT !.status = "fetched", !.attempts = n]]
                /\ run_stats' = [run_stats EXCEPT !.attempted = @ + first]
           ELSE IF retries_exhausted(n)
           THEN /\ progress' = [progress EXCEPT ![sym] =
                       [p EXCEPT !.status = "fetch_failed", !.attempts = n]]
                /\ run_stats' = [run_stats EXCEPT !.attempted = @ + first,
                                                  !.failed = @ + 1]
           ELSE /\ progress' = [progress EXCEPT ![sym] =
                       [p EXCEPT !.attempts = n,
                                 !.waited = @ + RETRY_DELAY_SECONDS]]
                /\ run_stats' = [run_stats EXCEPT !.attempted = @ + first]
    /\ UNCHANGED <<coreVars, apiVars, script, stage, run_date, universe, survivors,
                   forwarded, scan_log, feed, run_picks, ranking, notified>>

(* the indicators, selection and scoring of a fetched symbol; a history    *)
(* too short is caught and counted *)
screen_symbol(sym) ==
    /\ stage = "PerSymbolScreen"
    /\ sym \in forwarded
    /\ progress[sym].status = "fetched"
    /\ IF feed[sym].bars < HISTORICAL_BARS_REQUIRED
       THEN /\ progress' = [progress EXCEPT ![sym].status =
                                               "insufficient_history"]
            /\ run_stats' = [run_stats EXCEPT !.failed = @ + 1]
            /\ UNCHANGED run_picks
       ELSE /\ progress' = [progress EXCEPT ![sym].status = "screened",
                                            ![sym].screenings = @ + 1]
            /\ run_stats' = [run_stats EXCEPT !.succeeded = @ + 1]
            /\ run_picks' = run_picks \o symbol_picks(run_date, sym,
                                                      feed[sym])
    /\ UNCHANGED <<coreVars, apiVars, script, stage, run_date, universe, survivors,
                   forwarded, scan_log, feed, ranking, notified>>

(* PerSymbolScreen -> Persist: every forwarded symbol is finished *)
finish_screening ==
    /\ stage = "PerSymbolScreen"
    /\ screening_finished(forwarded, progress)
    /\ stage' = "Persist"
    /\ UNCHANGED <<coreVars, apiVars, script, run_date, universe, survivors,
                   forwarded, scan_log, feed, progress, run_picks, ranking,
                   run_stats, notified>>

(* Persist -> Notify: the picks are ranked and stored *)
persist ==
    /\ stage = "Persist"
    /\ ranking' = [asof |-> run_date, picks |-> rank_picks(run_picks)]
    /\ stage' = "Notify"
    /\ UNCHANGED <<coreVars, apiVars, script, run_date, universe, survivors,
                   forwarded, scan_log, feed, progress, run_picks, run_stats,
                   notified>>

(* Notify -> Idle: the alert is sent *)
notify ==
    /\ stage = "Notify"
    /\ notified' = notified \cup {run_date}
    /\ stage' = "Idle"
    /\ UNCHANGED <<coreVars, apiVars, script, run_date, universe, survivors,
                   forwarded, scan_log, feed, progress, run_picks, ranking,
                   run_stats>>

NextRun ==
    \/ start_run
    \/ load_universe
    \/ sentiment_filter
    \/ \E sym \in Symbols : fetch_attempt(sym)
    \/ \E sym \in Symbols : screen_symbol(sym)
    \/ finish_screening
    \/ persist
    \/ notify

SpecRun == InitRun /\ [][NextRun]_vars

(* every step of a run that can be taken is eventually taken *)
SpecRunFair == SpecRun /\ WF_vars(NextRun)

FinishedStatuses == {"screened", "fetch_failed", "insufficient_history"}

(* C13: a run visits its stages in the order Idle, LoadUniverse,           *)
(* SentimentFilter, PerSymbolScreen, Persist, Notify, Idle; a symbol is    *)
(* fetched or screened only in PerSymbolScreen and after the sentiment     *)
(* filter logged it as passed; Persist starts, and the ranking is stored,  *)
(* only when every forwarded symbol is finished; the alert is sent only    *)
(* after the ranking of the run was stored.                                *)
StageOrder ==
    [][/\ stage' # stage =>
            \E i \in DOMAIN Stages :
                /\ stage = Stages[i]
                /\ stage' = Stages[(i % Len(Stages)) + 1]
       /\ \A sym \in Symbols :
            (\/ progress'[sym].attempts > progress[sym].attempts
             \/ progress'[sym].screenings > progress[sym].screenings
             \/ Len(run_picks') > Len(run_picks)) =>
                /\ stage = "PerSymbolScreen"
                /\ (progress'[sym] # progress[sym]) =>
                      \E i \in DOMAIN scan_log :
                          /\ scan_log[i].run_date = run_date
                          /\ scan_log[i].symbol = sym
                          /\ scan_log[i].passed_sentiment_filter = 1
       /\ (stage' = "Persist" /\ stage # "Persist") =>
            \A sym \in forwarded : progress[sym].status \in FinishedStatuses
       /\ ranking' # ranking =>
            /\ stage = "Persist"
            /\ \A sym \in forwarded : progress[sym].status \in FinishedStatuses
       /\ notified' # notified =>
            /\ stage = "Notify"
            /\ ranking.asof = run_date
      ]_vars

(* a run with two forwarded symbols has gone through every stage *)
StageOrderWitness ==
    /\ stage = "Idle"
    /\ run_date \in notified
    /\ Cardinality(forwarded) >= 2
    /\ ranking.asof = run_date

(* what a symbol's screening must end in, given what its data source       *)
(* returns *)
ExpectedStatus(sym) ==
    IF feed[sym].fetch_failures >= 1 + 3 THEN "fetch_failed"
    ELSE IF feed[sym].bars < 200 THEN "insufficient_history"
    ELSE "screened"

(* what the run has recorded when every forwarded symbol is finished *)
FailuresIsolated ==
    /\ \A sym \in forwarded :
          /\ progress[sym].status = ExpectedStatus(sym)
          /\ ExpectedStatus(sym) = "screened" =>
                \A k \in {"CC", "CSP"} :
                    (IF k = "CC" THEN feed[sym].cc ELSE feed[sym].csp)
                          # Null =>
                        \E i \in DOMAIN run_picks :
                            /\ run_picks[i].symbol = sym
                            /\ run_picks[i].strategy = k
    /\ run_stats.attempted = Cardinality(forwarded)
    /\ run_stats.failed =
          Cardinality({sym \in forwarded : ExpectedStatus(sym) # "screened"})
    /\ run_stats.succeeded =
          Cardinality({sym \in forwarded : ExpectedStatus(sym) = "screened"})

(* C14: a symbol's failure (its fetch failing on every attempt, or a too   *)
(* short history) is counted and never aborts the run: whichever symbols   *)
(* fail, a run that started screening reaches Notify (through Persist),    *)
(* with every other forwarded symbol screened and its picks kept, and the  *)
(* failures counted.                                                       *)
FailureIsolation ==
    (stage = "PerSymbolScreen") ~> (stage = "Notify" /\ FailuresIsolated)

(* a run reached Notify although one symbol's fetch failed on every        *)
(* attempt, and another symbol was screened *)
FailureIsolationWitness ==
    /\ stage = "Notify"
    /\ \E a, b \in forwarded :
          /\ progress[a].status = "fetch_failed"
          /\ progress[b].status = "screened"

(* C15: only the data fetch is retried, a fixed number of times: a symbol  *)
(* is fetched at most 1 + 3 times, every retry follows a 5-second delay,   *)
(* a successful fetch is not repeated, the symbol is counted as failed     *)
(* only after the third retry failed, and its screening computation runs   *)
(* at most once.                                                           *)
RetryBounded ==
    \A sym \in Symbols :
        LET p == progress[sym]
        IN  /\ p.attempts <= 1 + 3
            /\ p.screenings <= 1
            /\ p.status = "fetch_failed" =>
                  /\ p.attempts = 1 + 3
                  /\ feed[sym].fetch_failures >= 1 + 3
            /\ p.status \in {"fetched", "screened", "insufficient_history"}
                  => p.attempts = feed[sym].fetch_failures + 1
            /\ p.status = "pending" => p.waited = 5 * p.attempts
            /\ p.status \in FinishedStatuses \cup {"fetched"}
                  => p.waited = 5 * (p.attempts - 1)
            /\ p.status = "screened" => p.screenings = 1

(* one symbol failed after its third retry, another was screened after two *)
(* retries *)
RetryBoundedWitness ==
    \E a, b \in forwarded :
        /\ progress[a].status = "fetch_failed"
        /\ progress[a].waited = 15
        /\ progress[b].status = "screened"
        /\ progress[b].attempts = 3

ScanLogComplete ==
    (run_date >= 1 /\ stage \notin {"LoadUniverse", "SentimentFilter"}) =>
        /\ \A sym \in Symbols :
              Cardinality({i \in DOMAIN scan_log :
                              /\ scan_log[i].run_date = run_date
                              /\ scan_log[i].symbol = sym})
                 = IF sym \in universe THEN 1 ELSE 0
        /\ \A i \in DOMAIN scan_log :
              scan_log[i].run_date = run_date =>
                  (scan_log[i].passed_sentiment_filter = 1
                      <=> scan_log[i].symbol \in forwarded)
        /\ forwarded \subseteq survivors
        /\ survivors \subseteq universe

(* a filter that kept some symbols, dropped one at step 1 and one at       *)
(* step 2 *)
ScanLogCompleteWitness ==
    /\ stage = "PerSymbolScreen"
    /\ universe = Symbols
    /\ forwarded # {}
    /\ survivors # forwarded
    /\ survivors # universe
    /\ Len(scan_log) >= 3

(***************************************************************************)
(* The web API: the DatabaseService and the routes that read through it.   *)
(* Scores, ranks and returns are in hundredths.  A query parameter is      *)
(* Null when absent, else <<text>>, a decimal text given by its whole part *)
(* and its hundredths.                                                      *)
(***************************************************************************)

(* DatabaseService.connect(): the handle is kept only when both the open   *)
(* and the pragma succeed *)
connect(outcome) ==
    IF outcome = "connected" THEN "open" ELSE "null"

isConnected_inverted(handle) == handle = "null"
isConnected(handle) == handle # "null"

ConnectOutcomes == {"connected", "open_failed", "pragma_failed"}

Decimal(whole, hundredths) == [whole |-> whole, hundredths |-> hundredths]
parseFloat(text) == text.whole * 100 + text.hundredths
parseInt(text) == text.whole

Reading(v) == <<v>>

PickRows ==
    {[id |-> 1, date |-> 1, symbol |-> "SPY", strategy |-> "CC",
      score |-> Reading(75), iv_rank |-> Reading(4500),
      roi_30d |-> Reading(5), contrarian_signal |-> "long"],
     [id |-> 2, date |-> 1, symbol |-> "AAPL", strategy |-> "CSP",
      score |-> Reading(75), iv_rank |-> Reading(3000),
      roi_30d |-> Reading(2), contrarian_signal |-> "none"],
     [id |-> 3, date |-> 1, symbol |-> "NBIS", strategy |-> "CC",
      score |-> Reading(60), iv_rank |-> Null,
      roi_30d |-> Reading(8), contrarian_signal |-> "short"],
     [id |-> 4, date |-> 2, symbol |-> "SPY", strategy |-> "CSP",
      score |-> Reading(90), iv_rank |-> Reading(6000),
      roi_30d |-> Reading(4), contrarian_signal |-> "long"]}

RationaleRows ==
    {[pick_id |-> 1, summary |-> "first", created_at |-> 1],
     [pick_id |-> 1, summary |-> "second", created_at |-> 2],
     [pick_id |-> 4, summary |-> "third", created_at |-> 3],
     [pick_id |-> 4, summary |-> "fourth", created_at |-> 3]}

(* earnings dates are days from today; a past date is negative *)
EarningsRows ==
    {[symbol |-> "SPY", earnings_date |-> -5],
     [symbol |-> "SPY", earnings_date |-> 12],
     [symbol |-> "SPY", earnings_date |-> 40]}

(* pipeline runs, by the hours since they started *)
Run(hours_ago, status, attempted, succeeded) ==
    [hours_ago |-> hours_ago, status |-> status,
     symbols_attempted |-> attempted, symbols_succeeded |-> succeeded]

RunLogs ==
    {{},
     {Run(2, "success", 10, 10)},
     {Run(30, "success", 10, 10)},
     {Run(2, "failed", 10, 4), Run(50, "success", 0, 0)},
     {Run(2, "success", 10, 4)}}

AlertLogs ==
    {{},
     {[id |-> i, hours_ago |-> 1,
       severity |-> IF i = 7 THEN "info" ELSE "warning",
       acknowledged |-> IF i = 2 THEN 1 ELSE 0] : i \in 1..7}}

PickTables ==
    {[picks |-> {}, rationales |-> {}, earnings |-> {}],
     [picks |-> PickRows, rationales |-> RationaleRows,
      earnings |-> EarningsRows]}

Databases ==
    {[picks |-> t.picks, rationales |-> t.rationales,
      earnings |-> t.earnings, pipeline_runs |-> runs,
      monitoring_alerts |-> alerts] :
        t \in PickTables, runs \in RunLogs, alerts \in AlertLogs}

(* ---- GET /api/health ---- *)
health_response(handle) ==
    LET isDbConnected == isConnected(handle)
    IN  [route |-> "health",
         http |-> IF isDbConnected THEN 200 ELSE 503,
         body |-> [status |-> IF isDbConnected THEN "healthy"
                                               ELSE "unhealthy",
                   database |-> IF isDbConnected THEN "connected"
                                                 ELSE "disconnected"]]

(* ---- GET /api/monitoring/health ---- *)
last_run(runs) ==
    IF runs = {} THEN Null
    ELSE <<CHOOSE r \in runs :
              \A o \in runs : r.hours_ago <= o.hours_ago>>

week_stats(runs) ==
    LET week == {r \in runs : r.hours_ago <= 7 * 24}
    IN  [total_runs |-> Cardinality(week),
         successful_runs |->
             Cardinality({r \in week : r.status = "success"})]

recent_alerts(alerts) ==
    Cardinality({a \in alerts :
                    /\ a.hours_ago <= 24
                    /\ a.severity \in {"warning", "critical"}})

(* the health after the last-run checks *)
last_run_health(lastRun) ==
    IF lastRun = Null
    THEN [healthScore |-> 0, status |-> "critical"]
    ELSE LET run == lastRun[1]
             first ==
                IF run.hours_ago > 26
                THEN [healthScore |-> 100 - 50, status |-> "critical"]
                ELSE IF run.status = "failed"
                THEN [healthScore |-> 100 - 30, status |-> "degraded"]
                ELSE [healthScore |-> 100, status |-> "healthy"]
         IN  IF /\ run.symbols_attempted > 0
                /\ 2 * run.symbols_succeeded < run.symbols_attempted
             THEN [healthScore |-> first.healthScore - 20,
                   status |-> IF first.status = "healthy" THEN "degraded"
                              ELSE first.status]
             ELSE first

monitoring_health_response(handle, t) ==
    IF handle = "null"
    THEN [route |-> "monitoring_health", http |-> 500,
          body |-> [success |-> FALSE, error |-> "Database not connected",
                    status |-> "unknown", health_score |-> 0]]
    ELSE LET lastRun == last_run(t.pipeline_runs)
             weekStats == week_stats(t.pipeline_runs)
             alertCount == recent_alerts(t.monitoring_alerts)
             afterRun == last_run_health(lastRun)
             weekly ==
                IF /\ weekStats.total_runs > 0
                   /\ 100 * weekStats.successful_runs
                         < 80 * weekStats.total_runs
                THEN afterRun.healthScore - 15
                ELSE afterRun.healthScore
             alerted == IF alertCount > 5 THEN weekly - 10 ELSE weekly
         IN  [route |-> "monitoring_health", http |-> 200,
              body |-> [success |-> TRUE, status |-> afterRun.status,
                        health_score |-> IF alerted < 0 THEN 0
                                         ELSE alerted]]

(* ---- GET /api/picks ---- *)
sql_ge(column, bound) == column # Null /\ column[1] >= bound

(* the rows the LEFT JOINs attach to a pick: its latest rationales and its *)
(* next earnings dates; one row with NULLs when there is none *)
latest_rationales(t, pick) ==
    LET own == {r \in t.rationales : r.pick_id = pick.id}
        latest == {r \in own : \A o \in own : o.created_at <= r.created_at}
    IN  IF latest = {} THEN {Null} ELSE {<<r.summary>> : r \in latest}

next_earnings(t, pick) ==
    LET upcoming == {e \in t.earnings :
                        e.symbol = pick.symbol /\ e.earnings_date >= 0}
        next == {e \in upcoming :
                    \A o \in upcoming : e.earnings_date <= o.earnings_date}
    IN  IF next = {} THEN {Null} ELSE {<<e.earnings_date>> : e \in next}

selected_rows(t) ==
    UNION {{[pick |-> p, rationale |-> r, earnings_date |-> e] :
               r \in latest_rationales(t, p), e \in next_earnings(t, p)} :
           p \in t.picks}

(* the filters object the route builds from the query *)
picks_filters(query) ==
    [date |-> query.date,
     strategy |-> query.strategy,
     minScore |-> IF query.minScore = Null THEN 0
                  ELSE parseFloat(query.minScore[1]),
     minIVR |-> IF query.minIVR = Null THEN 0
                ELSE parseFloat(query.minIVR[1]),
     minROI |-> IF query.minROI = Null THEN 0
                ELSE parseFloat(query.minROI[1]),
     sentimentSignal |-> query.sentimentSignal,
     limit |-> IF query.limit = Null THEN 100 ELSE parseInt(query.limit[1]),
     offset |-> IF query.offset = Null THEN 0
                ELSE parseInt(query.offset[1])]

where_clause(filters, row) ==
    /\ filters.date # Null => row.pick.date = filters.date[1]
    /\ filters.strategy # Null => row.pick.strategy = filters.strategy[1]
    /\ filters.sentimentSignal # Null =>
          row.pick.contrarian_signal = filters.sentimentSignal[1]
    /\ sql_ge(row.pick.score, filters.minScore)
    /\ sql_ge(row.pick.iv_rank, filters.minIVR)
    /\ sql_ge(row.pick.roi_30d, filters.minROI)

(* ORDER BY p.score DESC: every order of the rows by decreasing score; the *)
(* order of rows of equal score is the engine's choice *)
RECURSIVE order_by_score_desc(_)
order_by_score_desc(rows) ==
    IF rows = {} THEN {<<>>}
    ELSE UNION {{<<top>> \o rest :
                    rest \in order_by_score_desc(rows \ {top})} :
                top \in {r \in rows :
                            \A o \in rows :
                                o.pick.score[1] <= r.pick.score[1]}}

limit_offset_unbounded(ordered, limit, offset) ==
    SubSeq(ordered, offset + 1, Len(ordered))

(* LIMIT ? OFFSET ? *)
limit_offset(ordered, limit, offset) ==
    SubSeq(ordered, offset + 1,
           IF offset + limit < Len(ordered) THEN offset + limit
           ELSE Len(ordered))

(* the result sets the query may return *)
getFilteredPicks(t, filters) ==
    {limit_offset(ordered, filters.limit, filters.offset) :
        ordered \in order_by_score_desc(
                        {row \in selected_rows(t) :
                            where_clause(filters, row)})}

PicksQueries ==
    [date : {Null, <<1>>},
     strategy : {Null, <<"CC">>},
     sentimentSignal : {Null, <<"long">>},
     minScore : {Null, <<Decimal(0, 70)>>},
     minIVR : {Null, <<Decimal(35, 0)>>},
     minROI : {Null, <<Decimal(0, 3)>>},
     limit : {Null, <<Decimal(1, 0)>>, <<Decimal(2, 50)>>},
     offset : {Null, <<Decimal(1, 0)>>}]

(* ---- GET /api/picks/date/:date ---- *)
getPicksByDate(t, date) ==
    order_by_score_desc({row \in selected_rows(t) : row.pick.date = date})

(* ---- GET /api/picks/:id ---- *)
(* the rationale?.summary of the ORDER BY created_at DESC LIMIT 1 row: any *)
(* of the latest rationales, null when there is none *)
(* getPickById without ORDER BY created_at DESC: any rationale of the pick *)
getPickById_unordered(t, id) ==
    IF \A p \in t.picks : p.id # id THEN {Null}
    ELSE LET pick == CHOOSE p \in t.picks : p.id = id
             own == {r \in t.rationales : r.pick_id = id}
         IN  {<<[pick |-> pick,
                 rationale |-> IF own = {} THEN Null ELSE <<r.summary>>]>> :
                 r \in IF own = {} THEN {Null} ELSE own}

getPickById(t, id) ==
    IF \A p \in t.picks : p.id # id THEN {Null}
    ELSE LET pick == CHOOSE p \in t.picks : p.id = id
         IN  {<<[pick |-> pick, rationale |-> r]>> :
                 r \in latest_rationales(t, pick)}

PickIdTexts == {Decimal(1, 0), Decimal(3, 0), Decimal(4, 70), Decimal(9, 0)}

(* ---- POST /api/monitoring/alerts/:id/acknowledge ---- *)
(* DELETE FROM monitoring_alerts WHERE id = ? *)
acknowledged_alerts_deleted(alerts, id) == {a \in alerts : a.id # id}

(* UPDATE monitoring_alerts SET acknowledged = 1, without the WHERE *)
acknowledged_alerts_all(alerts, id) ==
    {[a EXCEPT !.acknowledged = 1] : a \in alerts}

(* UPDATE monitoring_alerts SET acknowledged = 1 WHERE id = ? *)
acknowledged_alerts(alerts, id) ==
    {IF a.id = id THEN [a EXCEPT !.acknowledged = 1] ELSE a : a \in alerts}

AlertIds == {1, 3, 99}

(* ---- the other data endpoints ---- *)
db_call_never_throws(handle) == FALSE

(* if (!this.db) throw new Error('Database not connected') *)
db_call_throws(handle) == handle = "null"

not_connected_response(route) ==
    [route |-> route, http |-> 500,
     body |-> [success |-> FALSE, error |-> "Database not connected"]]

(* the endpoints that read through one DatabaseService call inside a       *)
(* try/catch; what they read is not modelled *)
ReadRoutes ==
    {"picks_latest", "picks_top", "stats", "stats_daily", "stats_history",
     "stats_dates", "stats_latest_date", "symbol_history",
     "monitoring_runs", "monitoring_performance", "monitoring_alerts",
     "monitoring_metrics"}

SearchQueries == {Null, <<"SP">>}

(* ---- the server ---- *)
InitApi ==
    /\ CoreIdle
    /\ RunIdle
    /\ \E outcome \in ConnectOutcomes : db = connect(outcome)
    /\ tables \in Databases
    /\ request = NoRequest
    /\ response = NoResponse

(* DatabaseService.close() *)
close ==
    /\ db # "null"
    /\ db' = "null"
    /\ UNCHANGED <<coreVars, runVars, tables, request, response>>

(* app.get('/api/health') *)
api_health ==
    /\ request = NoRequest
    /\ request' = [route |-> "health", query |-> <<>>]
    /\ response' = health_response(db)
    /\ UNCHANGED <<coreVars, runVars, db, tables>>

(* router.get('/health') of the monitoring routes *)
monitoring_health ==
    /\ request = NoRequest
    /\ request' = [route |-> "monitoring_health", query |-> <<>>]
    /\ response' = monitoring_health_response(db, tables)
    /\ UNCHANGED <<coreVars, runVars, db, tables>>

(* router.get('/') of the picks routes *)
get_picks ==
    \E query \in PicksQueries :
        /\ request = NoRequest
        /\ request' = [route |-> "picks", query |-> query]
        /\ IF db = "null"
           THEN response' = [route |-> "picks", http |-> 500,
                             body |-> [success |-> FALSE,
                                       error |-> "Database not connected"]]
           ELSE \E found \in getFilteredPicks(tables, picks_filters(query)) :
                    response' = [route |-> "picks", http |-> 200,
                                 body |-> [success |-> TRUE,
                                           count |-> Len(found),
                                           picks |-> found]]
        /\ UNCHANGED <<coreVars, runVars, db, tables>>

(* router.get('/date/:date') of the picks routes *)
get_picks_by_date ==
    \E date \in {1, 2, 3} :
        /\ request = NoRequest
        /\ request' = [route |-> "picks_by_date", query |-> [date |-> date]]
        /\ IF db_call_throws(db)
           THEN response' = not_connected_response("picks_by_date")
           ELSE \E found \in getPicksByDate(tables, date) :
                    response' = [route |-> "picks_by_date", http |-> 200,
                                 body |-> [success |-> TRUE, date |-> date,
                                           count |-> Len(found),
                                           picks |-> found]]
        /\ UNCHANGED <<coreVars, runVars, db, tables>>

(* router.get('/:id') of the picks routes *)
get_pick_by_id ==
    \E text \in PickIdTexts :
        /\ request = NoRequest
        /\ request' = [route |-> "pick", query |-> [id |-> text]]
        /\ IF db_call_throws(db)
           THEN response' = not_connected_response("pick")
           ELSE \E pick \in getPickById(tables, parseInt(text)) :
                    response' =
                        IF pick = Null
                        THEN [route |-> "pick", http |-> 404,
                              body |-> [success |-> FALSE,
                                        error |-> "Pick not found"]]
                        ELSE [route |-> "pick", http |-> 200,
                              body |-> [success |-> TRUE,
                                        pick |-> pick[1]]]
        /\ UNCHANGED <<coreVars, runVars, db, tables>>

(* router.post('/alerts/:id/acknowledge') of the monitoring routes *)
acknowledge_alert ==
    \E id \in AlertIds :
        /\ request = NoRequest
        /\ request' = [route |-> "acknowledge", query |-> [id |-> id]]
        /\ IF db_call_throws(db)
           THEN /\ response' = not_connected_response("acknowledge")
                /\ tables' = tables
           ELSE /\ response' = [route |-> "acknowledge", http |-> 200,
                                body |-> [success |-> TRUE,
                                          message |-> "Alert acknowledged"]]
                /\ tables' =
                      [tables EXCEPT !.monitoring_alerts =
                          acknowledged_alerts(tables.monitoring_alerts, id)]
        /\ UNCHANGED <<coreVars, runVars, db>>

(* router.get('/search') of the symbols routes *)
search_symbols ==
    \E q \in SearchQueries :
        /\ request = NoRequest
        /\ request' = [route |-> "symbols_search", query |-> [q |-> q]]
        /\ response' =
              IF q = Null
              THEN [route |-> "symbols_search", http |-> 400,
                    body |-> [success |-> FALSE,
                              error |->
                                "Search query required (min 1 character)"]]
              ELSE IF db_call_throws(db)
              THEN not_connected_response("symbols_search")
              ELSE [route |-> "symbols_search", http |-> 200,
                    body |-> [success |-> TRUE]]
        /\ UNCHANGED <<coreVars, runVars, db, tables>>

(* the read-only routes of the picks, stats, symbols and monitoring        *)
(* routers not modelled above *)
read_data ==
    \E route \in ReadRoutes :
        /\ request = NoRequest
        /\ request' = [route |-> route, query |-> <<>>]
        /\ response' =
              IF db_call_throws(db) THEN not_connected_response(route)
              ELSE [route |-> route, http |-> 200,
                    body |-> [success |-> TRUE]]
        /\ UNCHANGED <<coreVars, runVars, db, tables>>

(* res.json(): the response leaves the server, which takes the next      *)
(* request; a handler runs to completion before another one starts *)
send_response ==
    /\ request # NoRequest
    /\ request' = NoRequest
    /\ response' = NoResponse
    /\ UNCHANGED <<coreVars, runVars, db, tables>>

NextApi ==
    \/ close
    \/ send_response
    \/ api_health
    \/ monitoring_health
    \/ get_picks
    \/ get_picks_by_date
    \/ get_pick_by_id
    \/ acknowledge_alert
    \/ search_symbols
    \/ read_data

SpecApi == InitApi /\ [][NextApi]_vars

HealthBand(score) ==
    IF score >= 80 THEN "healthy"
    ELSE IF score >= 50 THEN "degraded"
    ELSE "critical"

(* C18: in every successful response of GET /api/monitoring/health the     *)
(* status is the band of the health score: healthy for 80..100, degraded   *)
(* for 50..79, critical for 0..49.                                         *)
StatusMatchesBand ==
    (response.route = "monitoring_health" /\ response.http = 200) =>
        /\ response.body.health_score \in 0..100
        /\ response.body.status = HealthBand(response.body.health_score)

(* C19: GET /api/health answers 200, healthy and connected exactly when    *)
(* the database handle is open at the time of the request, and 503,        *)
(* unhealthy and disconnected otherwise (the connection failed at startup, *)
(* or close() was called).                                                 *)
HealthReflectsHandle ==
    [][(request.route # "health" /\ request'.route = "health") =>
            IF db = "open"
            THEN /\ response'.http = 200
                 /\ response'.body.status = "healthy"
                 /\ response'.body.database = "connected"
            ELSE /\ response'.http = 503
                 /\ response'.body.status = "unhealthy"
                 /\ response'.body.database = "disconnected"
      ]_vars

(* the health check answered 503 with the handle gone *)
HealthReflectsHandleWitness ==
    /\ db = "null"
    /\ response.route = "health"
    /\ response.http = 503
    /\ response.body.database = "disconnected"

TextValue(text) == text.whole * 100 + text.hundredths

Minimum(param) == IF param = Null THEN 0 ELSE TextValue(param[1])

Satisfies(query, pick) ==
    /\ query.date # Null => pick.date = query.date[1]
    /\ query.strategy # Null => pick.strategy = query.strategy[1]
    /\ query.sentimentSignal # Null =>
          pick.contrarian_signal = query.sentimentSignal[1]
    /\ pick.score # Null /\ pick.score[1] >= Minimum(query.minScore)
    /\ pick.iv_rank # Null /\ pick.iv_rank[1] >= Minimum(query.minIVR)
    /\ pick.roi_30d # Null /\ pick.roi_30d[1] >= Minimum(query.minROI)

CspMarginWindow ==
    (/\ pc = "filtered"
     /\ strategy = "CSP"
     /\ 95 * stock_price <= 100 * contract.strike
     /\ 100 * contract.strike <= 98 * stock_price) =>
        LET m == margin_of_safety(contract, stock_price)
        IN  /\ m >= 200
            /\ m <= 500
            /\ m < 750
            /\ close_to_spot_multiplier([margin_of_safety |-> m]) = 92
                  <=> 100 * contract.strike # 95 * stock_price

(* eligible puts at both ends of the strike window: one at exactly 95%,    *)
(* not penalised, or one at 98%, penalised *)
CspMarginWindowWitness ==
    /\ pc = "filtered"
    /\ strategy = "CSP"
    /\ verdict = "ok"
    /\ \/ /\ 100 * contract.strike = 95 * stock_price
          /\ margin_of_safety(contract, stock_price) = 500
       \/ /\ 100 * contract.strike = 98 * stock_price
          /\ margin_of_safety(contract, stock_price) = 200

(* a bonus (a multiplier above 1) applies to the scored inputs *)
BonusApplied ==
    \/ inp.oi > 2000
    \/ inp.contrarian_signal = "long"
    \/ strategy = "CC" /\ inp.trend_consistency > 70
    \/ strategy = "CSP" /\ inp.in_uptrend
    \/ strategy = "CSP" /\ inp.iv_percentile > 8000

(* C27: for inputs in their documented ranges (trend_strength in [-1,1],   *)
(* trend_stability in [0,1], dividend_yield >= 0) the weighted base score  *)
(* of a CC and of a CSP lies in [0,1] before any multiplier, and the final *)
(* clamp changes a score only when at least one bonus was applied.         *)
BaseScoreInRange ==
    (/\ pc = "scored"
     /\ inp.trend_strength \in -100..100
     /\ inp.trend_stability \in 0..100
     /\ inp.dividend_yield >= 0) =>
        /\ res.base >= 0
        /\ res.base <= Unit
        /\ res.score # res.pre => BonusApplied

(* a put whose components all have their full score, so that its base      *)
(* score is exactly 1.0, and whose bonuses lift it over 1.0 before the     *)
(* clamp *)
BaseScoreInRangeWitness ==
    /\ pc = "scored"
    /\ strategy = "CSP"
    /\ res.base = Unit
    /\ BigLess(res.one, res.pre)
    /\ res.score = res.one
    /\ res.score # res.pre

(* the fetch attempts of the current run, over all symbols *)
RECURSIVE AttemptsOf(_)
AttemptsOf(syms) ==
    IF syms = {} THEN 0
    ELSE LET sym == CHOOSE x \in syms : TRUE
         IN  progress[sym].attempts + AttemptsOf(syms \ {sym})

(* C30: every run that leaves Idle returns to Idle, even when every fetch  *)
(* of every symbol fails on every attempt, having made at most 1 + 3 fetch *)
(* attempts for each symbol it screened (and none for the others).         *)
RunTerminates ==
    (stage = "LoadUniverse") ~>
        (/\ stage = "Idle"
         /\ AttemptsOf(Symbols) <= (1 + 3) * Cardinality(forwarded)
         /\ AttemptsOf(Symbols \ forwarded) = 0)

(* a finished run in which the fetch of each of three symbols failed on    *)
(* every attempt *)
RunTerminatesWitness ==
    /\ stage = "Idle"
    /\ run_date >= 1
    /\ Cardinality(forwarded) = 3
    /\ \A sym \in forwarded : progress[sym].status = "fetch_failed"
    /\ AttemptsOf(Symbols) = 12

AlertContent(a) ==
    [id |-> a.id, hours_ago |-> a.hours_ago, severity |-> a.severity]

DataRoutes ==
    ReadRoutes \cup {"picks", "picks_by_date", "pick", "symbols_search",
                     "monitoring_health", "acknowledge"}

(* C25 as stated: with the database handle null, every data endpoint       *)
(* answers 500 with success:false and an error message.                    *)
AlwaysFailsWith500 ==
    [][(/\ request.route = "none"
        /\ request'.route \in DataRoutes
        /\ db = "null") =>
          /\ response'.http = 500
          /\ response'.body.success = FALSE
          /\ "error" \in DOMAIN response'.body
      ]_vars

(* C25, amended: with the database handle null, every data endpoint        *)
(* answers with success:false and an error message, never success:true,    *)
(* and with HTTP 500, except that GET /api/symbols/search without a search *)
(* text answers HTTP 400 before it uses the database.                      *)
FailsWithoutDatabase ==
    [][(/\ request.route = "none"
        /\ request'.route \in DataRoutes
        /\ db = "null") =>
          /\ response'.route = request'.route
          /\ response'.body.success = FALSE
          /\ "error" \in DOMAIN response'.body
          /\ response'.http =
                IF request'.route = "symbols_search"
                   /\ request'.query.q = Null
                THEN 400 ELSE 500
          /\ tables' = tables
      ]_vars

(* a read answered with 500 while the handle is null *)
FailsWithoutDatabaseWitness ==
    /\ db = "null"
    /\ response.route = "picks_latest"
    /\ response.http = 500
    /\ response.body.success = FALSE

(* C28: a pick appears at most once in the result of getFilteredPicks and  *)
(* of getPicksByDate, whatever its rationales and earnings rows.           *)
PicksListedOnce ==
    (response.route \in {"picks", "picks_by_date"} /\ response.http = 200) =>
        \A i, j \in DOMAIN response.body.picks :
            response.body.picks[i].pick.id = response.body.picks[j].pick.id
                => i = j

(* C29: a successful POST /api/monitoring/alerts/:id/acknowledge leaves    *)
(* the alert with that id acknowledged, changes no other alert row, and    *)
(* changes nothing when the alert is already acknowledged; no API step     *)
(* ever takes an acknowledged flag from 1 back to 0.                       *)
AcknowledgeIdempotent ==
    [][/\ (/\ request.route = "none"
           /\ request'.route = "acknowledge"
           /\ response'.http = 200) =>
              LET id == request'.query.id
              IN  /\ \A a \in tables'.monitoring_alerts :
                        a.id = id => a.acknowledged = 1
                  /\ {a \in tables'.monitoring_alerts : a.id # id}
                        = {a \in tables.monitoring_alerts : a.id # id}
                  /\ {a.id : a \in tables'.monitoring_alerts}
                        = {a.id : a \in tables.monitoring_alerts}
                  /\ (\A a \in tables.monitoring_alerts :
                         a.id = id => a.acknowledged = 1)
                        => tables' = tables
       /\ \A a \in tables.monitoring_alerts :
             a.acknowledged = 1 =>
                 \A b \in tables'.monitoring_alerts :
                     b.id = a.id => b.acknowledged = 1
       /\ {a.id : a \in tables.monitoring_alerts}
             \subseteq {a.id : a \in tables'.monitoring_alerts}
      ]_vars

(* alerts 1 and 3 acknowledged by requests, alert 4 still open *)
AcknowledgeIdempotentWitness ==
    /\ response.route = "acknowledge"
    /\ response.http = 200
    /\ \E a, b, c \in tables.monitoring_alerts :
          /\ a.id = 1 /\ a.acknowledged = 1
          /\ b.id = 3 /\ b.acknowledged = 1
          /\ c.id = 4 /\ c.acknowledged = 0

(***************************************************************************)
(* run_daily_screening.sh: the runner cron starts once a day.  The script  *)
(* record holds what the execution meets (whether the project directory   *)
(* and the virtual environment are there, the exit status of the python    *)
(* pipeline process and of the tee that copies its output to the log       *)
(* file) and what it has done so far: the lines it logged, the Telegram    *)
(* error notifications it sent, and its own exit code.                     *)
(***************************************************************************)
PipelineExitCodes == {0, 1, 2, 130}
TeeExitCodes == {0, 1}

(* log(): one line appended to the log file *)
log(s, line) == [s EXCEPT !.log = Append(@, line)]

(* send_error_notification(): one Telegram message *)
send_error_notification(s, error_msg) ==
    [s EXCEPT !.notifications = Append(@, error_msg)]

(* the exit status of `python ... 2>&1 | tee -a "$LOG_FILE"`: without the  *)
(* pipefail option the shell reports the status of the last command *)
pipeline_status(python_exit, tee_exit) == tee_exit

InitScript ==
    /\ CoreIdle
    /\ ApiIdle
    /\ PipelineIdle
    /\ \E cd_ok, venv_ok \in BOOLEAN :
       \E python_exit \in PipelineExitCodes, tee_exit \in TeeExitCodes :
          script = [NoScript EXCEPT !.pc = "start",
                                    !.cd_ok = cd_ok,
                                    !.venv_ok = venv_ok,
                                    !.python_exit = python_exit,
                                    !.tee_exit = tee_exit]

(* log "Starting daily options screening" *)
start_logging ==
    /\ script.pc = "start"
    /\ script' = [log(script, "Starting daily options screening")
                     EXCEPT !.pc = "cd"]
    /\ UNCHANGED <<coreVars, apiVars, stage, run_date, universe, survivors,
                   forwarded, scan_log, feed, progress, run_picks, ranking,
                   run_stats, notified>>

(* cd "$PROJECT_DIR" || { log ...; exit 1 } *)
change_directory ==
    /\ script.pc = "cd"
    /\ script' =
          IF script.cd_ok
          THEN [script EXCEPT !.pc = "activate"]
          ELSE [log(script, "ERROR: Failed to change to project directory")
                   EXCEPT !.pc = "exited", !.exit_code = 1]
    /\ UNCHANGED <<coreVars, apiVars, stage, run_date, universe, survivors,
                   forwarded, scan_log, feed, progress, run_picks, ranking,
                   run_stats, notified>>

(* source "$VENV_PATH/bin/activate" || { log ...; send_error_notification  *)
(* ...; exit 1 } *)
activate_venv ==
    /\ script.pc = "activate"
    /\ script' =
          IF script.venv_ok
          THEN [log(script, "Running production pipeline...")
                   EXCEPT !.pc = "pipeline"]
          ELSE [send_error_notification(
                    log(script,
                        "ERROR: Failed to activate virtual environment"),
                    "Failed to activate virtual environment")
                   EXCEPT !.pc = "exited", !.exit_code = 1]
    /\ UNCHANGED <<coreVars, apiVars, stage, run_date, universe, survivors,
                   forwarded, scan_log, feed, progress, run_picks, ranking,
                   run_stats, notified>>

(* if python -m python_app.src.pipelines.daily_job 2>&1 | tee -a           *)
(* "$LOG_FILE"; then exit_code=0 ... else exit_code=$? ... fi *)
run_pipeline ==
    /\ script.pc = "pipeline"
    /\ LET status == pipeline_status(script.python_exit, script.tee_exit)
       IN  script' =
              IF status = 0
              THEN [log(script, "Pipeline completed successfully")
                       EXCEPT !.pc = "cleanup", !.exit_code = 0]
              ELSE [send_error_notification(
                        log(script, "Pipeline failed with exit code"),
                        "Pipeline exited with code")
                       EXCEPT !.pc = "cleanup", !.exit_code = status]
    /\ UNCHANGED <<coreVars, apiVars, stage, run_date, universe, survivors,
                   forwarded, scan_log, feed, progress, run_picks, ranking,
                   run_stats, notified>>

(* log "Daily screening finished"; find ... -mtime +30 -delete || true *)
clean_up_old_logs ==
    /\ script.pc = "cleanup"
    /\ script' = [log(script, "Daily screening finished")
                     EXCEPT !.pc = "exit"]
    /\ UNCHANGED <<coreVars, apiVars, stage, run_date, universe, survivors,
                   forwarded, scan_log, feed, progress, run_picks, ranking,
                   run_stats, notified>>

(* exit $exit_code *)
exit_script ==
    /\ script.pc = "exit"
    /\ script' = [script EXCEPT !.pc = "exited"]
    /\ UNCHANGED <<coreVars, apiVars, stage, run_date, universe, survivors,
                   forwarded, scan_log, feed, progress, run_picks, ranking,
                   run_stats, notified>>

NextScript ==
    \/ start_logging
    \/ change_directory
    \/ activate_venv
    \/ run_pipeline
    \/ clean_up_old_logs
    \/ exit_script

SpecScript == InitScript /\ [][NextScript]_vars

PipelineRan ==
    \E i \in DOMAIN script.log :
        script.log[i] \in {"Pipeline completed successfully",
                           "Pipeline failed with exit code"}

(* C22: once the script has run the pipeline and exited, a non-zero exit   *)
(* code of the pipeline process means the script logged the failure, sent  *)
(* the Telegram error notification and exited non-zero; exit code 0 of the *)
(* pipeline means the script exited 0 and sent no error notification.      *)
ExitCodePreserved ==
    (script.pc = "exited" /\ PipelineRan) =>
        IF script.python_exit # 0
        THEN /\ script.exit_code # 0
             /\ script.notifications # <<>>
             /\ \E i \in DOMAIN script.log :
                   script.log[i] = "Pipeline failed with exit code"
        ELSE /\ script.exit_code = 0
             /\ script.notifications = <<>>

====
